---- MODULE Spec2Model ----
(***************************************************************************)
(* A model of unstructured/chunking/base.py: ChunkingOptions, PreChunker,  *)
(* PreChunkBuilder, PreChunk, _Chunker, _TableChunker, _HtmlTableSplitter, *)
(* _TextSplitter, the row/cell accumulators, PreChunkCombiner and the      *)
(* boundary predicates.                                                    *)
(*                                                                         *)
(* A Python str is a sequence of one-character strings. An optional value  *)
(* (an argument that may be None) is <<>> for None and <<v>> for v.        *)
(***************************************************************************)
EXTENDS Integers, Sequences, FiniteSets, TLC

VARIABLES
    \* ChunkingOptions
    kwargs,                \* ChunkingOptions._kwargs
    boundary_predicates,   \* ChunkingOptions.boundary_predicates, as overridden
    \* the closure of the predicate returned by is_on_next_page()
    current_page_number,
    is_first,
    \* PreChunkBuilder
    b_elements,            \* _elements
    b_overlap_prefix,      \* _overlap_prefix
    b_text_segments,       \* _text_segments
    b_text_len,            \* _text_len
    \* PreChunker._iter_pre_chunks
    elements,              \* the elements taken from the stream so far
    pre_at,                \* where the generator stands
    pre_elem,              \* the local `element` while suspended in flush()
    slot1,                 \* the pre-chunk being yielded to the consumer
    pre_chunks,            \* every pre-chunk yielded so far
    \* PreChunkCombiner.iter_combined_pre_chunks and its _PreChunkAccumulator
    accum,                 \* _PreChunkAccumulator._pre_chunk
    accum_parts,           \* how many pre-chunks were combined into accum
    comb_at,               \* where the generator stands
    comb_pending,          \* the local `pre_chunk` while suspended in flush()
    slot2,                 \* the pre-chunk being yielded to the consumer
    combined,              \* every pre-chunk yielded so far, with its parts
    \* PreChunk.iter_chunks, _Chunker and _TableChunker
    pc,                    \* which generator is running; "new", "error", "done"
    c_table,               \* _TableChunker._table
    c_prefix,              \* _TableChunker._overlap_prefix
    is_continuation,       \* the local `is_continuation` of the table split loop
    c_text,                \* _Chunker._text
    remainder,             \* `remainder` / `text_remainder` of the split loops
    chunks,                \* the chunks emitted so far, in order
    \* a page predicate or PreChunk objects used outside a pipeline
    heap,                  \* the objects alive, by identity
    calls,                 \* the calls made on a predicate or on PreChunk objects
    \* the ElementMetadata objects of the chunks
    metadata,              \* the objects alive, by identity
    chunk_metadata,        \* chunk_metadata[i] is the identity of chunks[i].metadata
    html_strategy          \* the consolidation strategy of text_as_html, once read

optVars == <<kwargs, boundary_predicates>>
pageVars == <<current_page_number, is_first>>
builderVars == <<b_elements, b_overlap_prefix, b_text_segments, b_text_len>>
preVars == <<elements, pre_at, pre_elem, slot1, pre_chunks>>
combVars == <<accum, accum_parts, comb_at, comb_pending, slot2, combined>>
tableVars == <<c_table, c_prefix, is_continuation>>
chunkVars == <<c_text, remainder, chunks>>
metaVars == <<metadata, chunk_metadata, html_strategy>>
heapVars == <<heap, calls, metaVars>>

vars ==
    <<optVars, pageVars, builderVars, preVars, combVars, tableVars, chunkVars,
      heapVars, pc>>

-----------------------------------------------------------------------------
(* Optional values *)

None == <<>>
Some(v) == <<v>>
IsNone(x) == x = <<>>
Val(x) == x[1]

Min(a, b) == IF a <= b THEN a ELSE b
Max(a, b) == IF a >= b THEN a ELSE b

-----------------------------------------------------------------------------
(* Python str operations *)

NL == "\n"
SP == " "

\* str.isspace() on one character
IsWs(c) == c \in {SP, NL}

\* s[:n] for n >= 0
Take(s, n) == SubSeq(s, 1, Min(n, Len(s)))

\* s[n:] for n >= 0
Drop(s, n) == SubSeq(s, n + 1, Len(s))

\* s[-n:] for n > 0
LastN(s, n) == SubSeq(s, Max(1, Len(s) - n + 1), Len(s))

\* s.lstrip()
LStrip(s) ==
    LET kept == {i \in 1 .. Len(s) : ~IsWs(s[i])}
    IN  IF kept = {} THEN <<>>
        ELSE SubSeq(s, CHOOSE i \in kept : \A j \in kept : i <= j, Len(s))

\* s.rstrip()
RStrip(s) ==
    LET kept == {i \in 1 .. Len(s) : ~IsWs(s[i])}
    IN  IF kept = {} THEN <<>>
        ELSE SubSeq(s, 1, CHOOSE i \in kept : \A j \in kept : j <= i)

\* s.strip()
Strip(s) == LStrip(RStrip(s))

\* " ".join(t.split()) for a t without leading or trailing whitespace: every
\* run of whitespace becomes one space
CollapseWs(t) ==
    LET marked == [i \in 1 .. Len(t) |->
                      IF ~IsWs(t[i]) THEN t[i]
                      ELSE IF i > 1 /\ IsWs(t[i - 1]) THEN "" ELSE SP]
    IN  SelectSeq(marked, LAMBDA c : c # "")

\* " ".join(s.strip().split())
NormalizeWs(s) == CollapseWs(Strip(s))

\* sep.join(segments)
RECURSIVE Join(_, _)
Join(sep, segments) ==
    IF segments = <<>> THEN <<>>
    ELSE IF Len(segments) = 1 THEN segments[1]
    ELSE segments[1] \o sep \o Join(sep, Tail(segments))

\* n copies of the string w
RECURSIVE Rep(_, _)
Rep(w, n) == IF n <= 0 THEN <<>> ELSE w \o Rep(w, n - 1)

-----------------------------------------------------------------------------
(* ChunkingOptions *)

CHUNK_MAX_CHARS_DEFAULT == 500

\* ChunkingOptions.hard_max
HardMax(k) ==
    IF IsNone(k.max_characters) THEN CHUNK_MAX_CHARS_DEFAULT ELSE Val(k.max_characters)

\* ChunkingOptions.overlap: `overlap_arg or 0`
Overlap(k) ==
    IF IsNone(k.overlap) \/ Val(k.overlap) = 0 THEN 0 ELSE Val(k.overlap)

\* ChunkingOptions.inter_chunk_overlap: overlap_all is None, False or True
InterChunkOverlap(k) ==
    IF ~IsNone(k.overlap_all) /\ Val(k.overlap_all) THEN Overlap(k) ELSE 0

\* ChunkingOptions.soft_max
SoftMax(k) ==
    IF IsNone(k.new_after_n_chars) THEN HardMax(k)
    ELSE IF Val(k.new_after_n_chars) > HardMax(k) THEN HardMax(k)
    ELSE Val(k.new_after_n_chars)

\* combine_text_under_n_chars defaulting to max_characters
CombineTextUnderNCharsHardMax(k) ==
    IF IsNone(k.combine_text_under_n_chars) THEN HardMax(k)
    ELSE Val(k.combine_text_under_n_chars)

\* ChunkingOptions.combine_text_under_n_chars
CombineTextUnderNChars(k) ==
    IF IsNone(k.combine_text_under_n_chars) THEN 0
    ELSE Val(k.combine_text_under_n_chars)

\* ChunkingOptions.include_orig_elements
IncludeOrigElements(k) ==
    IF IsNone(k.include_orig_elements) THEN TRUE ELSE Val(k.include_orig_elements)

\* ChunkingOptions.text_separator: "\n\n"
TextSeparator == <<NL, NL>>

\* ChunkingOptions.text_splitting_separators
TextSplittingSeparators(k) ==
    IF IsNone(k.text_splitting_separators) THEN << <<NL>>, <<SP>> >>
    ELSE Val(k.text_splitting_separators)

\* _validate with the overlap test written `>` for `>=`
ValidateLax(k) ==
    IF HardMax(k) <= 0 THEN FALSE
    ELSE IF ~IsNone(k.new_after_n_chars) /\ Val(k.new_after_n_chars) < 0 THEN FALSE
    ELSE IF Overlap(k) > HardMax(k) THEN FALSE
    ELSE TRUE

\* ChunkingOptions._validate: TRUE when it returns, FALSE when it raises ValueError
Validate(k) ==
    IF HardMax(k) <= 0 THEN FALSE
    ELSE IF ~IsNone(k.new_after_n_chars) /\ Val(k.new_after_n_chars) < 0 THEN FALSE
    ELSE IF Overlap(k) >= HardMax(k) THEN FALSE
    ELSE TRUE

\* the kwargs of a ChunkingOptions built with every argument None
NoKwargs ==
    [max_characters |-> None, new_after_n_chars |-> None, overlap |-> None,
     overlap_all |-> None, combine_text_under_n_chars |-> None,
     text_splitting_separators |-> None, include_orig_elements |-> None]

-----------------------------------------------------------------------------
(* _TextSplitter *)

\* the search ending at endpos less the length of sep, which misses a separator
\* that starts exactly at maxlen
RSearchBelowMax(sep, s, pos, endpos) ==
    LET hi == Min(endpos - Len(sep), Len(s))
        hits == {i \in pos .. (hi - Len(sep)) : SubSeq(s, i + 1, i + Len(sep)) = sep}
    IN  IF hits = {} THEN 0 - 1
        ELSE CHOOSE i \in hits : \A j \in hits : j <= i

\* pattern.search(s, pos, endpos) of the reversed ("(?r)") literal pattern sep:
\* the 0-based start of the right-most occurrence of sep that lies within
\* s[pos:endpos], or -1 when there is none
RSearch(sep, s, pos, endpos) ==
    LET hi == Min(endpos, Len(s))
        hits == {i \in pos .. (hi - Len(sep)) : SubSeq(s, i + 1, i + Len(sep)) = sep}
    IN  IF hits = {} THEN 0 - 1
        ELSE CHOOSE i \in hits : \A j \in hits : j <= i

\* _split_from_maxlen with the remainder taken one character past the separator
SplitFromMaxlenSkip(sep, s, maxlen, overlap) ==
    LET match_start == RSearch(sep, s, overlap + 1, maxlen + Len(sep))
        match_end == match_start + Len(sep)
        separator == <<SP>>
        fragment == RStrip(Take(s, match_start))
        raw_remainder == LStrip(Drop(s, match_end + 1))
        tail_len == overlap - Len(separator)
        tail == LStrip(LastN(fragment, tail_len))
    IN  IF match_start < 0 THEN << <<>>, s >>
        ELSE IF overlap <= Len(separator) THEN <<fragment, raw_remainder>>
        ELSE <<fragment, tail \o separator \o raw_remainder>>

\* _split_from_maxlen with a tail of `overlap` characters before the separator
SplitFromMaxlenFullTail(sep, s, maxlen, overlap) ==
    LET match_start == RSearch(sep, s, overlap + 1, maxlen + Len(sep))
        match_end == match_start + Len(sep)
        separator == <<SP>>
        fragment == RStrip(Take(s, match_start))
        raw_remainder == LStrip(Drop(s, match_end))
        tail == LStrip(LastN(fragment, overlap))
    IN  IF match_start < 0 THEN << <<>>, s >>
        ELSE IF overlap <= Len(separator) THEN <<fragment, raw_remainder>>
        ELSE <<fragment, tail \o separator \o raw_remainder>>

\* _TextSplitter._split_from_maxlen: <<fragment, remainder>>
SplitFromMaxlen(sep, s, maxlen, overlap) ==
    LET match_start == RSearch(sep, s, overlap + 1, maxlen + Len(sep))
        match_end == match_start + Len(sep)
        separator == <<SP>>
        fragment == RStrip(Take(s, match_start))
        raw_remainder == LStrip(Drop(s, match_end))
        tail_len == overlap - Len(separator)
        tail == LStrip(LastN(fragment, tail_len))
    IN  IF match_start < 0 THEN << <<>>, s >>
        ELSE IF overlap <= Len(separator) THEN <<fragment, raw_remainder>>
        ELSE <<fragment, tail \o separator \o raw_remainder>>

\* the separator loop with the arbitrary-character split keeping one character
\* more than `overlap` for the remainder
RECURSIVE SplitOnPatternsDeepCut(_, _, _, _)
SplitOnPatternsDeepCut(seps, s, maxlen, overlap) ==
    IF seps = <<>>
    THEN <<RStrip(Take(s, maxlen)), LStrip(Drop(s, maxlen - overlap - 1))>>
    ELSE LET fr == SplitFromMaxlen(Head(seps), s, maxlen, overlap)
         IN  IF fr[1] = <<>> \/ Len(fr[2]) >= Len(s)
             THEN SplitOnPatternsDeepCut(Tail(seps), s, maxlen, overlap)
             ELSE <<RStrip(fr[1]), LStrip(fr[2])>>

\* the `for p, sep_len in self._patterns` loop of _TextSplitter.__call__ and the
\* arbitrary-character split that follows it
RECURSIVE SplitOnPatterns(_, _, _, _)
SplitOnPatterns(seps, s, maxlen, overlap) ==
    IF seps = <<>>
    THEN <<RStrip(Take(s, maxlen)), LStrip(Drop(s, maxlen - overlap))>>
    ELSE LET fr == SplitFromMaxlen(Head(seps), s, maxlen, overlap)
         IN  IF fr[1] = <<>> \/ Len(fr[2]) >= Len(s)
             THEN SplitOnPatterns(Tail(seps), s, maxlen, overlap)
             ELSE <<RStrip(fr[1]), LStrip(fr[2])>>

\* __call__ with a window one character wider than hard_max
SplitWide(k, s) ==
    IF Len(s) <= HardMax(k) + 1 THEN <<s, <<>> >>
    ELSE SplitOnPatterns(TextSplittingSeparators(k), s, HardMax(k) + 1, Overlap(k))

\* _TextSplitter.__call__: <<fragment, remainder>>
Split(k, s) ==
    IF Len(s) <= HardMax(k) THEN <<s, <<>> >>
    ELSE SplitOnPatterns(TextSplittingSeparators(k), s, HardMax(k), Overlap(k))

-----------------------------------------------------------------------------
(* Elements *)

\* an Element: its class, its text, metadata.page_number (None or a number) and,
\* for a Table, metadata.text_as_html (None, or the rows of the table, each the
\* texts of its cells)
Element(kind, text, page_number, html) ==
    [kind |-> kind, text |-> text, page_number |-> page_number, html |-> html]

-----------------------------------------------------------------------------
(* Boundary predicates *)

\* a predicate that reports no boundary
IsTitleNever(e) == FALSE

\* is_title
IsTitle(e) == e.kind = "Title"

\* page_number_incremented, the predicate is_on_next_page() returns, called with
\* an element whose metadata.page_number is page_number, the closure holding
\* cur and first: its result and the closure afterwards
PageNumberIncremented(cur, first, page_number) ==
    IF first
    THEN [result |-> FALSE,
          current_page_number |->
              IF IsNone(page_number) \/ Val(page_number) = 0 THEN 1
              ELSE Val(page_number),
          is_first |-> FALSE]
    ELSE IF IsNone(page_number)
    THEN [result |-> FALSE, current_page_number |-> cur, is_first |-> first]
    ELSE IF Val(page_number) = cur
    THEN [result |-> FALSE, current_page_number |-> cur, is_first |-> first]
    ELSE [result |-> TRUE, current_page_number |-> Val(page_number),
          is_first |-> first]

\* whether the page predicate is among the configured predicates
HasPagePredicate(preds) == \E i \in DOMAIN preds : preds[i] = "is_on_next_page"

\* the predicates called in turn until one returns True
RECURSIVE CallPredicatesUntilTrue(_, _, _, _)
CallPredicatesUntilTrue(preds, cur, first, e) ==
    IF preds = <<>>
    THEN [results |-> <<>>, current_page_number |-> cur, is_first |-> first]
    ELSE LET r == IF Head(preds) = "is_title"
                  THEN [result |-> IsTitle(e), current_page_number |-> cur,
                        is_first |-> first]
                  ELSE PageNumberIncremented(cur, first, e.page_number)
             rest == IF r.result
                     THEN [results |-> <<>>,
                           current_page_number |-> r.current_page_number,
                           is_first |-> r.is_first]
                     ELSE CallPredicatesUntilTrue(Tail(preds), r.current_page_number,
                                                  r.is_first, e)
         IN  [results |-> <<[pred |-> Head(preds), result |-> r.result]>>
                              \o rest.results,
              current_page_number |-> rest.current_page_number,
              is_first |-> rest.is_first]

\* [pred(element) for pred in self._boundary_predicates]: the predicates
\* called in turn on e, the page predicate's closure holding cur and first at
\* the start: each call with its result, and the closure afterwards
RECURSIVE CallPredicates(_, _, _, _)
CallPredicates(preds, cur, first, e) ==
    IF preds = <<>>
    THEN [results |-> <<>>, current_page_number |-> cur, is_first |-> first]
    ELSE LET r == IF Head(preds) = "is_title"
                  THEN [result |-> IsTitle(e), current_page_number |-> cur,
                        is_first |-> first]
                  ELSE PageNumberIncremented(cur, first, e.page_number)
             rest == CallPredicates(Tail(preds), r.current_page_number,
                                    r.is_first, e)
         IN  [results |-> <<[pred |-> Head(preds), result |-> r.result]>>
                              \o rest.results,
              current_page_number |-> rest.current_page_number,
              is_first |-> rest.is_first]

\* PreChunker._is_in_new_semantic_unit: every predicate is called, then any()
IsInNewSemanticUnit(preds, cur, first, e) ==
    LET semantic_boundaries == CallPredicates(preds, cur, first, e).results
    IN  \E i \in DOMAIN semantic_boundaries : semantic_boundaries[i].result

-----------------------------------------------------------------------------
(* PreChunk *)

\* PreChunk.__init__
PreChunk(els, overlap_prefix) == [elements |-> els, overlap_prefix |-> overlap_prefix]

\* the element texts PreChunk._iter_text_segments yields after the overlap prefix
RECURSIVE ElementSegments(_)
ElementSegments(els) ==
    IF els = <<>> THEN <<>>
    ELSE LET text == NormalizeWs(Head(els).text)
         IN  (IF text # <<>> THEN <<text>> ELSE <<>>) \o ElementSegments(Tail(els))

\* PreChunk._iter_text_segments
IterTextSegments(p) ==
    (IF p.overlap_prefix # <<>> THEN <<p.overlap_prefix>> ELSE <<>>)
        \o ElementSegments(p.elements)

\* PreChunk._text
Text(p) == Join(TextSeparator, IterTextSegments(p))

\* overlap_tail without the strip
OverlapTailUntrimmed(k, p) ==
    LET overlap == InterChunkOverlap(k)
    IN  IF overlap > 0 THEN LastN(Text(p), overlap)
        ELSE IF overlap < 0 THEN Drop(Text(p), 0 - overlap)
        ELSE <<>>

\* PreChunk.overlap_tail: self._text[-overlap:].strip() if overlap else ""
OverlapTail(k, p) ==
    LET overlap == InterChunkOverlap(k)
    IN  IF overlap > 0 THEN Strip(LastN(Text(p), overlap))
        ELSE IF overlap < 0 THEN Strip(Drop(Text(p), 0 - overlap))
        ELSE <<>>

\* combine keeping the overlap prefix of the second pre-chunk
CombineSecondPrefix(p, other_pre_chunk) ==
    PreChunk(p.elements \o other_pre_chunk.elements, other_pre_chunk.overlap_prefix)

\* PreChunk.combine
Combine(p, other_pre_chunk) ==
    PreChunk(p.elements \o other_pre_chunk.elements, p.overlap_prefix)

\* can_combine without the trial combination
CanCombineAnySize(k, p, pre_chunk) == Len(Text(p)) < CombineTextUnderNChars(k)

\* PreChunk.can_combine
CanCombine(k, p, pre_chunk) ==
    IF Len(Text(p)) >= CombineTextUnderNChars(k) THEN FALSE
    ELSE Len(Text(Combine(p, pre_chunk))) <= HardMax(k)

-----------------------------------------------------------------------------
(* PreChunkBuilder *)

\* PreChunkBuilder._text_length
TextLength(segs, text_len) ==
    LET n == Len(segs)
        separator_count == IF n # 0 THEN n - 1 ELSE 0
    IN  text_len + separator_count * Len(TextSeparator)

\* the space left without room for the separators
RemainingSpaceNoSeparators(k, segs, text_len) == HardMax(k) - text_len

\* PreChunkBuilder._remaining_space
RemainingSpace(k, segs, text_len) ==
    HardMax(k) - text_len - Len(TextSeparator) * Len(segs)

\* PreChunkBuilder.will_fit
WillFit(k, els, segs, text_len, e) ==
    IF Len(els) = 0 THEN TRUE
    ELSE IF TextLength(segs, text_len) > SoftMax(k) THEN FALSE
    ELSE ~(RemainingSpace(k, segs, text_len) < Len(e.text))

\* add_element leaving out an element without text
AddElementSkipEmpty(e) ==
    IF e.text = <<>> THEN UNCHANGED builderVars
    ELSE /\ b_elements' = Append(b_elements, e)
         /\ b_text_segments' = Append(b_text_segments, e.text)
         /\ b_text_len' = b_text_len + Len(e.text)
         /\ UNCHANGED b_overlap_prefix

\* PreChunkBuilder.add_element
AddElement(e) ==
    /\ b_elements' = Append(b_elements, e)
    /\ b_text_segments' =
           IF e.text # <<>> THEN Append(b_text_segments, e.text) ELSE b_text_segments
    /\ b_text_len' = IF e.text # <<>> THEN b_text_len + Len(e.text) ELSE b_text_len
    /\ UNCHANGED b_overlap_prefix

\* PreChunkBuilder._reset_state
ResetState(overlap_prefix) ==
    /\ b_overlap_prefix' = overlap_prefix
    /\ b_elements' = <<>>
    /\ b_text_segments' = IF overlap_prefix # <<>> THEN <<overlap_prefix>> ELSE <<>>
    /\ b_text_len' = Len(overlap_prefix)

\* PreChunkBuilder.flush up to its yield, the builder holding elements: the
\* pre-chunk is built, the builder is reset and the pre-chunk is yielded
FlushYield ==
    LET pre_chunk == PreChunk(b_elements, b_overlap_prefix)
    IN  /\ ResetState(OverlapTail(kwargs, pre_chunk))
        /\ slot1' = Some(pre_chunk)
        /\ pre_chunks' = Append(pre_chunks, pre_chunk)

-----------------------------------------------------------------------------
(* ChunkingOptions.new *)

\* ChunkingOptions.new: validates; raises ValueError or returns the options, after
\* which the pipeline starts with the first pull from PreChunker
New ==
    /\ pc = "new"
    /\ pc' = IF Validate(kwargs) THEN "pre" ELSE "error"
    /\ UNCHANGED <<optVars, pageVars, builderVars, preVars, combVars, tableVars,
                   chunkVars, heapVars>>

-----------------------------------------------------------------------------
(* PreChunker._iter_pre_chunks *)

\* the longest element stream considered
MaxElems == 3
MaxTitleElems == 4

\* how many elements the stream may have: MaxTitleElems when is_title is the
\* only predicate, else MaxElems
StreamBound ==
    IF boundary_predicates = <<"is_title">> THEN MaxTitleElems ELSE MaxElems

\* the closure of the page predicate after the predicates were called with e,
\* and the calls logged with the position of e in the stream
PageAfter(e) ==
    LET called == CallPredicates(boundary_predicates, current_page_number,
                                 is_first, e)
    IN  /\ current_page_number' = called.current_page_number
        /\ is_first' = called.is_first
        /\ calls' = calls \o [i \in DOMAIN called.results |->
                                 [pred |-> called.results[i].pred,
                                  element |-> Len(elements) + 1,
                                  result |-> called.results[i].result]]

\* one pass of the `for element in self._elements` loop for the next element e
\* of the stream, up to the yield inside flush() when flush() yields, else to
\* the end of the pass
PreChunkerNext(e) ==
    /\ pc = "pre"
    /\ pre_at = "loop"
    /\ Len(elements) < StreamBound
    /\ elements' = Append(elements, e)
    /\ PageAfter(e)
    /\ IF /\ \/ IsInNewSemanticUnit(boundary_predicates, current_page_number,
                                    is_first, e)
             \/ ~WillFit(kwargs, b_elements, b_text_segments, b_text_len, e)
          /\ b_elements # <<>>
       THEN /\ FlushYield
            /\ pre_at' = "yield_loop"
            /\ pre_elem' = Some(e)
            /\ pc' = "comb"
       ELSE /\ AddElement(e)
            /\ UNCHANGED <<pre_at, pre_elem, slot1, pre_chunks, pc>>
    /\ UNCHANGED <<optVars, combVars, tableVars, chunkVars, heap, metaVars>>

\* the consumer asks for the next pre-chunk: flush() returns and the pass ends
\* with add_element(element)
PreChunkerResume ==
    /\ pc = "pre"
    /\ pre_at = "yield_loop"
    /\ AddElement(Val(pre_elem))
    /\ pre_at' = "loop"
    /\ pre_elem' = None
    /\ UNCHANGED <<optVars, pageVars, elements, slot1, pre_chunks, combVars,
                   tableVars, chunkVars, heapVars, pc>>

\* the stream is exhausted: the flush of the "tail" pre-chunk, up to its yield
\* or, the builder being empty, to the end of the generator
PreChunkerEnd ==
    /\ pc = "pre"
    /\ pre_at = "loop"
    /\ IF b_elements # <<>>
       THEN /\ FlushYield
            /\ pre_at' = "yield_final"
       ELSE /\ pre_at' = "done"
            /\ UNCHANGED <<builderVars, slot1, pre_chunks>>
    /\ pc' = "comb"
    /\ UNCHANGED <<optVars, pageVars, elements, pre_elem, combVars, tableVars,
                   chunkVars, heapVars>>

\* the consumer asks for the next pre-chunk after the tail: the generator ends
PreChunkerFinish ==
    /\ pc = "pre"
    /\ pre_at = "yield_final"
    /\ pre_at' = "done"
    /\ pc' = "comb"
    /\ UNCHANGED <<optVars, pageVars, builderVars, elements, pre_elem, slot1,
                   pre_chunks, combVars, tableVars, chunkVars, heapVars>>

-----------------------------------------------------------------------------
(* PreChunkCombiner and _PreChunkAccumulator *)

\* _PreChunkAccumulator.will_fit
AccumWillFit(k, acc, pre_chunk) ==
    IF IsNone(acc) THEN TRUE ELSE CanCombine(k, Val(acc), pre_chunk)

\* add_pre_chunk keeping only the incoming pre-chunk
AddPreChunkReplace(acc, pre_chunk) == Some(pre_chunk)

\* _PreChunkAccumulator.add_pre_chunk: the new _pre_chunk
AddPreChunk(acc, pre_chunk) ==
    IF IsNone(acc) THEN Some(pre_chunk) ELSE Some(Combine(Val(acc), pre_chunk))

\* flush leaving the yielded pre-chunk in the accumulator
AccumFlushedKept(acc) == acc

\* _PreChunkAccumulator.flush after its yield: self._pre_chunk = None
AccumFlushed(acc) == None

\* one pass of the `for pre_chunk in self._pre_chunks` loop for the pre-chunk
\* PreChunker yielded, up to the yield inside accum.flush() when it yields, else
\* to the end of the pass and the pull of the next pre-chunk
CombinerNext ==
    /\ pc = "comb"
    /\ comb_at = "loop"
    /\ ~IsNone(slot1)
    /\ slot1' = None
    /\ IF ~AccumWillFit(kwargs, accum, Val(slot1)) /\ ~IsNone(accum)
       THEN /\ slot2' = accum
            /\ combined' = Append(combined, [pre_chunk |-> Val(accum),
                                             parts |-> accum_parts])
            /\ comb_at' = "yield_loop"
            /\ comb_pending' = slot1
            /\ pc' = "iter_chunks"
            /\ UNCHANGED <<accum, accum_parts>>
       ELSE /\ accum' = AddPreChunk(accum, Val(slot1))
            /\ accum_parts' = accum_parts + 1
            /\ pc' = "pre"
            /\ UNCHANGED <<comb_at, comb_pending, slot2, combined>>
    /\ UNCHANGED <<optVars, pageVars, builderVars, elements, pre_at, pre_elem,
                   pre_chunks, tableVars, chunkVars, heapVars>>

\* the consumer asks for the next combined pre-chunk: accum.flush() resets the
\* accumulator and returns, and the pass ends with add_pre_chunk(pre_chunk)
CombinerResume ==
    /\ pc = "comb"
    /\ comb_at = "yield_loop"
    /\ accum' = AddPreChunk(AccumFlushed(accum), Val(comb_pending))
    /\ accum_parts' = 1
    /\ comb_pending' = None
    /\ comb_at' = "loop"
    /\ pc' = "pre"
    /\ UNCHANGED <<optVars, pageVars, builderVars, preVars, slot2, combined,
                   tableVars, chunkVars, heapVars>>

\* PreChunker is exhausted: the final accum.flush(), up to its yield or, the
\* accumulator being empty, to the end of the generator
CombinerEnd ==
    /\ pc = "comb"
    /\ comb_at = "loop"
    /\ IsNone(slot1)
    /\ pre_at = "done"
    /\ IF ~IsNone(accum)
       THEN /\ slot2' = accum
            /\ combined' = Append(combined, [pre_chunk |-> Val(accum),
                                             parts |-> accum_parts])
            /\ comb_at' = "yield_final"
            /\ pc' = "iter_chunks"
       ELSE /\ comb_at' = "done"
            /\ pc' = "done"
            /\ UNCHANGED <<slot2, combined>>
    /\ UNCHANGED <<optVars, pageVars, builderVars, preVars, accum, accum_parts,
                   comb_pending, tableVars, chunkVars, heapVars>>

\* the consumer asks for the next combined pre-chunk after the last one:
\* accum.flush() resets the accumulator and the generator ends
CombinerFinish ==
    /\ pc = "comb"
    /\ comb_at = "yield_final"
    /\ accum' = AccumFlushed(accum)
    /\ accum_parts' = 0
    /\ comb_at' = "done"
    /\ pc' = "done"
    /\ UNCHANGED <<optVars, pageVars, builderVars, preVars, comb_pending, slot2,
                   combined, tableVars, chunkVars, heapVars>>

-----------------------------------------------------------------------------
(* Chunks *)

\* a CompositeElement, Table or TableChunk as emitted: its class, its text,
\* metadata.is_continuation (None or True) and, for a Table or TableChunk,
\* metadata.text_as_html (None or the rows of the table fragment)
Chunk(kind, text, continuation, text_as_html) ==
    [kind |-> kind, text |-> text, is_continuation |-> continuation,
     text_as_html |-> text_as_html]

\* an ElementMetadata object, as far as the chunkers set its fields
ElementMetadata(continuation, text_as_html) ==
    [is_continuation |-> continuation, text_as_html |-> text_as_html]

\* _Chunker._consolidated_metadata for elements that are no Table and carry
\* no is_continuation
ConsolidatedMetadata == ElementMetadata(None, None)

\* is_continuation set on the consolidated metadata object itself
ContinuationMetadataInPlace(objects, consolidated) ==
    [objects |-> [objects EXCEPT ![consolidated].is_continuation = Some(TRUE)],
     ref |-> consolidated]

\* _Chunker._continuation_metadata on first use: a copy of the consolidated
\* metadata object, with is_continuation set on the copy; the objects alive
\* afterwards and the identity of the copy
ContinuationMetadata(objects, consolidated) ==
    [objects |-> Append(objects, [objects[consolidated] EXCEPT
                                     !.is_continuation = Some(TRUE)]),
     ref |-> Len(objects) + 1]

\* _TableChunker._metadata: a deep copy of the table's metadata with the fields
\* of strategy DROP cleared
TableMetadata(table, strategy) ==
    ElementMetadata(None, IF strategy = "DROP" THEN None ELSE table.html)

-----------------------------------------------------------------------------
(* PreChunk.iter_chunks *)

\* PreChunk.iter_chunks: a single-Table pre-chunk goes to _TableChunker, every
\* other one to _Chunker with the pre-chunk's text
IterChunks ==
    /\ pc = "iter_chunks"
    /\ ~IsNone(slot2)
    /\ slot2' = None
    /\ LET p == Val(slot2)
       IN  IF Len(p.elements) = 1 /\ p.elements[1].kind = "Table"
           THEN /\ c_table' = Some(p.elements[1])
                /\ c_prefix' = p.overlap_prefix
                /\ pc' = "table"
                /\ UNCHANGED c_text
           ELSE /\ c_text' = Text(p)
                /\ pc' = "chunker"
                /\ UNCHANGED <<c_table, c_prefix>>
    /\ UNCHANGED <<optVars, pageVars, builderVars, preVars, accum, accum_parts,
                   comb_at, comb_pending, combined, is_continuation, remainder,
                   chunks, heapVars>>

-----------------------------------------------------------------------------
(* _Chunker *)

\* _Chunker._iter_chunks up to its first yield
ChunkerFirst ==
    /\ pc = "chunker"
    /\ IF c_text = <<>>
       THEN /\ pc' = "comb"
            /\ UNCHANGED <<remainder, chunks, metadata, chunk_metadata>>
       ELSE LET sr == Split(kwargs, c_text)
            IN  /\ chunks' = Append(chunks,
                                    Chunk("CompositeElement", sr[1], None, None))
                /\ metadata' = Append(metadata, ConsolidatedMetadata)
                /\ chunk_metadata' = Append(chunk_metadata, Len(metadata) + 1)
                /\ remainder' = sr[2]
                /\ pc' = IF sr[2] = <<>> THEN "comb" ELSE "chunker_loop"
    /\ UNCHANGED <<optVars, pageVars, builderVars, preVars, combVars, tableVars,
                   heap, calls, html_strategy, c_text>>

\* one pass of the `while remainder` loop of _Chunker._iter_chunks; the first
\* pass makes the continuation metadata, the later ones use it again
ChunkerNext ==
    /\ pc = "chunker_loop"
    /\ remainder # <<>>
    /\ LET sr == Split(kwargs, remainder)
           last == Len(chunks)
           cm == IF chunks[last].is_continuation = Some(TRUE)
                 THEN [objects |-> metadata, ref |-> chunk_metadata[last]]
                 ELSE ContinuationMetadata(metadata, chunk_metadata[last])
       IN  /\ chunks' = Append(chunks,
                               Chunk("CompositeElement", sr[1], Some(TRUE), None))
           /\ metadata' = cm.objects
           /\ chunk_metadata' = Append(chunk_metadata, cm.ref)
           /\ remainder' = sr[2]
           /\ pc' = IF sr[2] = <<>> THEN "comb" ELSE "chunker_loop"
    /\ UNCHANGED <<optVars, pageVars, builderVars, preVars, combVars, tableVars,
                   heap, calls, html_strategy, c_text>>

-----------------------------------------------------------------------------
(* HtmlTable, HtmlRow, HtmlCell: a table is its rows, a row its cells, a cell  *)
(* its text; the serialized HTML is compact, <td>text</td> for a cell.         *)

TABLE_TAGS_LEN == 15
TR_TAGS_LEN == 9
TD_TAGS_LEN == 9

RECURSIVE SumLen(_)
SumLen(texts) == IF texts = <<>> THEN 0 ELSE Len(Head(texts)) + SumLen(Tail(texts))

RECURSIVE Flatten(_)
Flatten(seqs) == IF seqs = <<>> THEN <<>> ELSE Head(seqs) \o Flatten(Tail(seqs))

\* HtmlRow.iter_cell_texts: the texts of the cells that have text
RowCellTexts(row) == SelectSeq(row, LAMBDA t : t # <<>>)

\* HtmlRow.text_len
RowTextLen(row) == Len(Join(<<SP>>, RowCellTexts(row)))

\* len(HtmlRow.html)
RowHtmlLen(row) == TR_TAGS_LEN + Len(row) * TD_TAGS_LEN + SumLen(row)

RECURSIVE RowsHtmlLen(_)
RowsHtmlLen(rows) ==
    IF rows = <<>> THEN 0 ELSE RowHtmlLen(Head(rows)) + RowsHtmlLen(Tail(rows))

\* len(HtmlTable.html)
HtmlLen(rows) == TABLE_TAGS_LEN + RowsHtmlLen(rows)

-----------------------------------------------------------------------------
(* _CellAccumulator and _RowAccumulator *)

\* _CellAccumulator._remaining_space
CellRemainingSpace(maxlen, cells) == maxlen - Len(cells) - SumLen(cells)

\* _CellAccumulator.will_fit
CellWillFit(maxlen, cells, cell) == CellRemainingSpace(maxlen, cells) >= Len(cell)

\* flush yielding the first accumulated cell only
CellFlushFirst(cells) ==
    IF cells = <<>> THEN <<>>
    ELSE << [text |-> Head(cells), html |-> << <<Head(cells)>> >>] >>

\* _CellAccumulator.flush: the (text, html) pairs it yields
CellFlush(cells) ==
    IF cells = <<>> THEN <<>>
    ELSE << [text |-> Join(<<SP>>, RowCellTexts(cells)), html |-> <<cells>>] >>

RECURSIVE RowsTextLen(_)
RowsTextLen(rows) ==
    IF rows = <<>> THEN 0 ELSE RowTextLen(Head(rows)) + RowsTextLen(Tail(rows))

\* _RowAccumulator._remaining_space
RowRemainingSpace(maxlen, rows) == maxlen - Len(rows) - RowsTextLen(rows)

\* will_fit without the space after each accumulated row
RowWillFitNoSeparators(maxlen, rows, row) ==
    maxlen - RowsTextLen(rows) >= RowTextLen(row)

\* _RowAccumulator.will_fit
RowWillFit(maxlen, rows, row) == RowRemainingSpace(maxlen, rows) >= RowTextLen(row)

\* _RowAccumulator.flush: the (text, html) pairs it yields
RowFlush(rows) ==
    IF rows = <<>> THEN <<>>
    ELSE << [text |->
                Join(<<SP>>, Flatten([i \in DOMAIN rows |-> RowCellTexts(rows[i])])),
             html |-> rows] >>

-----------------------------------------------------------------------------
(* _HtmlTableSplitter *)

\* len("<table><tr><td></td></tr></table>")
CELL_HTML_OVERHEAD == 33

\* the split loop of _iter_cell_splits on the text s with the splitter's options
RECURSIVE CellSplitLoop(_, _)
CellSplitLoop(opts, s) ==
    LET sr == Split(opts, s)
    IN  << [text |-> sr[1], html |-> << <<sr[1]>> >>] >>
            \o (IF sr[2] # <<>> THEN CellSplitLoop(opts, sr[2]) ELSE <<>>)

\* _iter_cell_splits with a splitter of the whole hard_max
IterCellSplitsFullWindow(k, cell) ==
    CellSplitLoop([NoKwargs EXCEPT !.max_characters = Some(HardMax(k))], cell)

\* _HtmlTableSplitter._iter_cell_splits
IterCellSplits(k, cell) ==
    CellSplitLoop(
        [NoKwargs EXCEPT !.max_characters = Some(HardMax(k) - CELL_HTML_OVERHEAD)],
        cell)

\* the `for cell in row.iter_cells()` loop of _iter_row_splits from the cells
\* still to come, accum holding cells, and the final flush
RECURSIVE CellLoop(_, _, _)
CellLoop(k, cells, acc) ==
    IF cells = <<>> THEN CellFlush(acc)
    ELSE LET cell == Head(cells)
             fits == CellWillFit(HardMax(k), acc, cell)
             flushed == IF fits THEN <<>> ELSE CellFlush(acc)
             acc1 == IF fits THEN acc ELSE <<>>
         IN  IF CellWillFit(HardMax(k), acc1, cell)
             THEN flushed \o CellLoop(k, Tail(cells), Append(acc1, cell))
             ELSE flushed \o IterCellSplits(k, cell) \o CellLoop(k, Tail(cells), acc1)

\* _HtmlTableSplitter._iter_row_splits
IterRowSplits(k, row) == CellLoop(k, row, <<>>)

\* the `for row in self._table_element.iter_rows()` loop of _iter_subtables from
\* the rows still to come, the accumulator holding acc, and the final flush
RECURSIVE RowLoop(_, _, _)
RowLoop(k, rows, acc) ==
    IF rows = <<>> THEN RowFlush(acc)
    ELSE LET row == Head(rows)
             fits == RowWillFit(HardMax(k), acc, row)
             flushed == IF fits THEN <<>> ELSE RowFlush(acc)
             acc1 == IF fits THEN acc ELSE <<>>
         IN  IF RowWillFit(HardMax(k), acc1, row)
             THEN flushed \o RowLoop(k, Tail(rows), Append(acc1, row))
             ELSE flushed \o IterRowSplits(k, row) \o RowLoop(k, Tail(rows), acc1)

\* _HtmlTableSplitter._iter_subtables: the (text, html) pairs in order
IterSubtables(k, rows) == RowLoop(k, rows, <<>>)

-----------------------------------------------------------------------------
(* _TableChunker *)

\* below this hard_max a table is split as text even when it has HTML
MIN_HTML_SPLIT_MAX == 50

\* _TableChunker._table_text
TableText(table) == NormalizeWs(table.text)

\* _text_with_overlap with the whitespace of the table text collapsed
TextWithOverlapCollapsed(table, overlap_prefix) ==
    IF overlap_prefix # <<>> THEN overlap_prefix \o <<NL>> \o NormalizeWs(table.text)
    ELSE NormalizeWs(table.text)

\* _text_with_overlap with a space between the overlap prefix and the text
TextWithOverlapSpace(table, overlap_prefix) ==
    IF overlap_prefix # <<>> THEN overlap_prefix \o <<SP>> \o Strip(table.text)
    ELSE Strip(table.text)

\* _TableChunker._text_with_overlap
TextWithOverlap(table, overlap_prefix) ==
    IF overlap_prefix # <<>> THEN overlap_prefix \o <<NL>> \o Strip(table.text)
    ELSE Strip(table.text)

\* len(_html) taken as 0 for every table
TableHtmlLenNone(table) == 0

\* len(_TableChunker._html): 0 when the table has no text_as_html
TableHtmlLen(table) == IF IsNone(table.html) THEN 0 ELSE HtmlLen(Val(table.html))

\* the TableChunks of _iter_text_and_html_table_chunks for the (text, html)
\* pairs, the first without is_continuation, the later ones with it
TableChunksOf(pairs) ==
    [i \in DOMAIN pairs |->
        Chunk("TableChunk", pairs[i].text, IF i = 1 THEN None ELSE Some(TRUE),
              Some(pairs[i].html))]

\* the metadata of those TableChunks: each a fresh copy of the table's, with
\* text_as_html and is_continuation set on it
TableChunkMetadataOf(table, strategy, pairs) ==
    [i \in DOMAIN pairs |->
        [TableMetadata(table, strategy) EXCEPT
            !.text_as_html = Some(pairs[i].html),
            !.is_continuation = IF i = 1 THEN None ELSE Some(TRUE)]]

\* the fallback taken only when the window does not exceed the HTML overhead
HtmlSplitImpracticalBelowOverhead(k) == HardMax(k) <= CELL_HTML_OVERHEAD

\* `self._opts.hard_max < 50` of _iter_chunks: text-only chunks for a small window
HtmlSplitImpractical(k) == HardMax(k) < MIN_HTML_SPLIT_MAX

\* _TableChunker._iter_chunks: no chunk for a table without text; one Table when
\* text and HTML fit; else the start of the text-only split loop, or all the
\* chunks of _iter_text_and_html_table_chunks (which raises ValueError for a
\* table without text_as_html). The strategy of text_as_html is read when the
\* text-only loop is to copy a text_as_html.
TableIterChunks ==
    /\ pc = "table"
    /\ LET table == Val(c_table)
           maxlen == HardMax(kwargs)
           text_with_overlap == TextWithOverlap(table, c_prefix)
       IN  IF TableText(table) = <<>>
           THEN /\ pc' = "comb"
                /\ UNCHANGED <<chunks, remainder, is_continuation, metaVars>>
           ELSE IF Len(text_with_overlap) <= maxlen /\ TableHtmlLen(table) <= maxlen
           THEN /\ chunks' = Append(chunks,
                                    Chunk("Table", text_with_overlap, None, table.html))
                /\ metadata' = Append(metadata,
                                      [TableMetadata(table, html_strategy) EXCEPT
                                          !.text_as_html = table.html])
                /\ chunk_metadata' = Append(chunk_metadata, Len(metadata) + 1)
                /\ pc' = "comb"
                /\ UNCHANGED <<remainder, is_continuation, html_strategy>>
           ELSE IF TableHtmlLen(table) = 0 \/ HtmlSplitImpractical(kwargs)
           THEN /\ remainder' = text_with_overlap
                /\ is_continuation' = FALSE
                /\ pc' = "table_text"
                /\ html_strategy' \in
                       IF IsNone(table.html) \/ html_strategy # "unread"
                       THEN {html_strategy} ELSE {"DROP", "FIRST"}
                /\ UNCHANGED <<chunks, metadata, chunk_metadata>>
           ELSE IF IsNone(table.html)
           THEN /\ pc' = "error"
                /\ UNCHANGED <<chunks, remainder, is_continuation, metaVars>>
           ELSE LET pairs == IterSubtables(kwargs, Val(table.html))
                IN  /\ chunks' = chunks \o TableChunksOf(pairs)
                    /\ metadata' = metadata \o
                           TableChunkMetadataOf(table, html_strategy, pairs)
                    /\ chunk_metadata' = chunk_metadata \o
                           [i \in DOMAIN pairs |-> Len(metadata) + i]
                    /\ pc' = "comb"
                    /\ UNCHANGED <<remainder, is_continuation, html_strategy>>
    /\ UNCHANGED <<optVars, pageVars, builderVars, preVars, combVars, c_table,
                   c_prefix, c_text, heap, calls>>

\* one pass of the `while text_remainder` loop of _iter_text_only_table_chunks:
\* the chunk gets a fresh copy of the table's metadata with is_continuation set
\* on it
TableTextNext ==
    /\ pc = "table_text"
    /\ remainder # <<>>
    /\ LET sr == Split(kwargs, remainder)
           m == [TableMetadata(Val(c_table), html_strategy) EXCEPT
                    !.is_continuation = IF is_continuation THEN Some(TRUE)
                                        ELSE None]
       IN  /\ chunks' = Append(chunks,
                               Chunk("TableChunk", sr[1], m.is_continuation,
                                     m.text_as_html))
           /\ metadata' = Append(metadata, m)
           /\ chunk_metadata' = Append(chunk_metadata, Len(metadata) + 1)
           /\ remainder' = sr[2]
           /\ pc' = IF sr[2] = <<>> THEN "comb" ELSE "table_text"
    /\ is_continuation' = TRUE
    /\ UNCHANGED <<optVars, pageVars, builderVars, preVars, combVars, c_table,
                   c_prefix, c_text, heap, calls, html_strategy>>

-----------------------------------------------------------------------------
(* The pipeline: ChunkingOptions.new with the kwargs, then the chunks of the *)
(* combined pre-chunks of the element stream, pulled one at a time:          *)
(*   for pre_chunk in PreChunkCombiner(PreChunker.iter_pre_chunks(elements,  *)
(*           opts), opts).iter_combined_pre_chunks():                        *)
(*       yield from pre_chunk.iter_chunks()                                  *)

SmallMax == 12
SoftArg == 5
OverlapArg == 2
CombineArg == 5

\* overlap and overlap_all: overlap_all has no effect without an overlap
OverlapArgs ==
    {<<None, None>>, <<Some(OverlapArg), None>>, <<Some(OverlapArg), Some(TRUE)>>,
     <<Some(CHUNK_MAX_CHARS_DEFAULT), None>>}

PipelineKwargs ==
    {[NoKwargs EXCEPT !.max_characters = m, !.new_after_n_chars = n,
                      !.overlap = o[1], !.overlap_all = o[2],
                      !.combine_text_under_n_chars = c] :
        m \in {None, Some(0), Some(SmallMax), Some(MIN_HTML_SPLIT_MAX)},
        n \in {None, Some(0 - 1), Some(0), Some(SoftArg)},
        o \in OverlapArgs,
        c \in {None, Some(CombineArg)}}

BoundaryPredicates == {<<>>, <<"is_title", "is_on_next_page">>}

\* cell texts of 29 and of 54 characters
Cell29 == RStrip(Rep(<<"a", "b", SP>>, 10))
Cell54 == RStrip(Rep(<<"a", "b", "c", "d", SP>>, 11))

\* a table whose rows need, at hard_max 50, a row split, a cell split and a
\* text split
BigTableRows == << <<Cell29>>, <<Cell29, <<>>, Cell29>>, <<Cell54>> >>

\* a small table without text_as_html
SampleTable == Element("Table", <<"t", SP, "t", NL, "t">>, Some(2), None)

ElementCatalogue ==
    {Element("Title", <<"a">>, Some(1), None),
     Element("Text", <<"b", SP, NL, SP, "b">>, Some(1), None),
     Element("PageBreak", <<>>, None, None),
     Element("Text", <<"d", "d", SP, "d", "d", "d", SP, "d", "d", "d", "d", SP,
                       "d", "d", "d", "d", "d">>, Some(2), None),
     SampleTable,
     Element("Table", Join(<<SP>>, Flatten([i \in DOMAIN BigTableRows |->
                                             RowCellTexts(BigTableRows[i])])),
             Some(2), Some(BigTableRows))}

Init ==
    /\ kwargs \in PipelineKwargs
    /\ boundary_predicates \in BoundaryPredicates
    /\ current_page_number = 1
    /\ is_first = TRUE
    /\ b_elements = <<>>
    /\ b_overlap_prefix = <<>>
    /\ b_text_segments = <<>>
    /\ b_text_len = 0
    /\ elements = <<>>
    /\ pre_at = "loop"
    /\ pre_elem = None
    /\ slot1 = None
    /\ pre_chunks = <<>>
    /\ accum = None
    /\ accum_parts = 0
    /\ comb_at = "loop"
    /\ comb_pending = None
    /\ slot2 = None
    /\ combined = <<>>
    /\ pc = "new"
    /\ c_table = None
    /\ c_prefix = <<>>
    /\ is_continuation = FALSE
    /\ c_text = <<>>
    /\ remainder = <<>>
    /\ chunks = <<>>
    /\ heap = <<>>
    /\ calls = <<>>
    /\ metadata = <<>>
    /\ chunk_metadata = <<>>
    /\ html_strategy = "unread"

Next ==
    \/ New
    \/ \E e \in ElementCatalogue : PreChunkerNext(e)
    \/ PreChunkerResume
    \/ PreChunkerEnd
    \/ PreChunkerFinish
    \/ CombinerNext
    \/ CombinerResume
    \/ CombinerEnd
    \/ CombinerFinish
    \/ IterChunks
    \/ ChunkerFirst
    \/ ChunkerNext
    \/ TableIterChunks
    \/ TableTextNext

Spec == Init /\ [][Next]_vars

-----------------------------------------------------------------------------
(* The split loops applied to any string: _Chunker(elements, text, opts) and   *)
(* the text-only table loop, for every text over a small alphabet and every   *)
(* accepted option set. c_text keeps the string the loop started from.        *)

MaxLen == 5
MaxHard == 3

Chars == {"a", "b", SP, NL}

Strings(n) == UNION {[1 .. i -> Chars] : i \in 0 .. n}

SeparatorArgs ==
    {None, Some(<< <<SP>> >>), Some(<< <<NL, NL>>, <<SP>> >>)}

SplitKwargs ==
    {k \in {[NoKwargs EXCEPT !.max_characters = Some(m), !.overlap = Some(o),
                             !.text_splitting_separators = seps] :
               m \in 1 .. MaxHard, o \in (0 - 1) .. MaxHard, seps \in SeparatorArgs} :
        Validate(k)}

InitSplit ==
    /\ kwargs \in SplitKwargs
    /\ c_text \in Strings(MaxLen)
    /\ \/ pc = "chunker" /\ remainder = <<>> /\ c_table = None
       \/ /\ pc = "table_text" /\ remainder = c_text /\ c_text # <<>>
          /\ c_table = Some(Element("Table", c_text, None, None))
    /\ boundary_predicates = <<>>
    /\ current_page_number = 1
    /\ is_first = TRUE
    /\ b_elements = <<>>
    /\ b_overlap_prefix = <<>>
    /\ b_text_segments = <<>>
    /\ b_text_len = 0
    /\ elements = <<>>
    /\ pre_at = "done"
    /\ pre_elem = None
    /\ slot1 = None
    /\ pre_chunks = <<>>
    /\ accum = None
    /\ accum_parts = 0
    /\ comb_at = "done"
    /\ comb_pending = None
    /\ slot2 = None
    /\ combined = <<>>
    /\ c_prefix = <<>>
    /\ is_continuation = FALSE
    /\ chunks = <<>>
    /\ heap = <<>>
    /\ calls = <<>>
    /\ metadata = <<>>
    /\ chunk_metadata = <<>>
    /\ html_strategy = "unread"

NextSplit == ChunkerFirst \/ ChunkerNext \/ TableTextNext

SpecSplit == InitSplit /\ [][NextSplit]_vars

-----------------------------------------------------------------------------
(* ChunkingOptions.new alone, for every combination of small numeric arguments *)

MaxOpt == 3

OptArgs == {None} \cup {Some(i) : i \in (0 - 1) .. MaxOpt}

OptsKwargs ==
    {[NoKwargs EXCEPT !.max_characters = m, !.new_after_n_chars = n,
                      !.overlap = o, !.overlap_all = a] :
        m \in OptArgs, n \in OptArgs, o \in OptArgs,
        a \in {None, Some(FALSE), Some(TRUE)}}

\* no pipeline has run: every generator and accumulator as constructed
Unstarted ==
    /\ current_page_number = 1
    /\ is_first = TRUE
    /\ b_elements = <<>>
    /\ b_overlap_prefix = <<>>
    /\ b_text_segments = <<>>
    /\ b_text_len = 0
    /\ elements = <<>>
    /\ pre_at = "loop"
    /\ pre_elem = None
    /\ slot1 = None
    /\ pre_chunks = <<>>
    /\ accum = None
    /\ accum_parts = 0
    /\ comb_at = "loop"
    /\ comb_pending = None
    /\ slot2 = None
    /\ combined = <<>>
    /\ c_table = None
    /\ c_prefix = <<>>
    /\ is_continuation = FALSE
    /\ c_text = <<>>
    /\ remainder = <<>>
    /\ chunks = <<>>

InitOpts ==
    /\ kwargs \in OptsKwargs
    /\ boundary_predicates = <<>>
    /\ pc = "new"
    /\ Unstarted
    /\ heap = <<>>
    /\ calls = <<>>
    /\ metadata = <<>>
    /\ chunk_metadata = <<>>
    /\ html_strategy = "unread"

NextOpts == New

SpecOpts == InitOpts /\ [][NextOpts]_vars

-----------------------------------------------------------------------------
(* One predicate returned by is_on_next_page(), called with elements of any   *)
(* page numbers; calls logs each call: the page number passed, the result.   *)

MaxPage == 3
MaxCalls == 7

PageNumbers == {None} \cup {Some(i) : i \in 0 .. MaxPage}

\* page_number_incremented(element), element.metadata.page_number = page_number
PageCall(page_number) ==
    /\ pc = "predicate"
    /\ Len(calls) < MaxCalls
    /\ LET r == PageNumberIncremented(current_page_number, is_first, page_number)
       IN  /\ current_page_number' = r.current_page_number
           /\ is_first' = r.is_first
           /\ calls' = Append(calls, [page_number |-> page_number,
                                      result |-> r.result])
    /\ UNCHANGED <<optVars, builderVars, preVars, combVars, tableVars, chunkVars,
                   heap, metaVars, pc>>

InitPage ==
    /\ kwargs = NoKwargs
    /\ boundary_predicates = <<"is_on_next_page">>
    /\ pc = "predicate"
    /\ Unstarted
    /\ heap = <<>>
    /\ calls = <<>>
    /\ metadata = <<>>
    /\ chunk_metadata = <<>>
    /\ html_strategy = "unread"

NextPage == \E page_number \in PageNumbers : PageCall(page_number)

SpecPage == InitPage /\ [][NextPage]_vars

-----------------------------------------------------------------------------
(* PreChunk objects combined with one another; heap[i] is the object with    *)
(* identity i, calls logs each combine(): the identities of self and of      *)
(* other_pre_chunk, their values before the call, the identity of the result *)

MaxCombines == 2

SampleElements == {Element("Title", <<"a">>, Some(1), None), SampleTable}

SamplePreChunks ==
    {PreChunk(<<e>>, overlap_prefix) :
        e \in SampleElements, overlap_prefix \in {<<>>, <<"x">>}}

\* heap[i].combine(heap[j]): a new PreChunk object; the element list handed to
\* its constructor is a new list and the constructor copies it
CombineCall(i, j) ==
    /\ pc = "objects"
    /\ Len(calls) < MaxCombines
    /\ heap' = Append(heap, Combine(heap[i], heap[j]))
    /\ calls' = Append(calls, [self |-> i, other |-> j,
                               self_before |-> heap[i], other_before |-> heap[j],
                               result |-> Len(heap) + 1])
    /\ UNCHANGED <<optVars, pageVars, builderVars, preVars, combVars, tableVars,
                   chunkVars, metaVars, pc>>

InitCombine ==
    /\ kwargs = NoKwargs
    /\ boundary_predicates = <<>>
    /\ pc = "objects"
    /\ Unstarted
    /\ heap \in [1 .. 3 -> SamplePreChunks]
    /\ calls = <<>>
    /\ metadata = <<>>
    /\ chunk_metadata = <<>>
    /\ html_strategy = "unread"

NextCombine == \E i \in DOMAIN heap : \E j \in DOMAIN heap : CombineCall(i, j)

SpecCombine == InitCombine /\ [][NextCombine]_vars

-----------------------------------------------------------------------------
(* One pre-chunk chunked on its own: PreChunk(elements, overlap_prefix,      *)
(* opts).iter_chunks() for a pre-chunk of one element of any class and any   *)
(* short text, with or without an overlap prefix, under accepted options.    *)
(* `combined` keeps the pre-chunk.                                           *)

IsoLen == 5
IsoMaxA == 2
IsoMaxB == 3
IsoMaxC == 40

\* every text of at most n characters over a letter, the space and the newline
IsoStrings(n) == UNION {[1 .. i -> {"a", SP, NL}] : i \in 0 .. n}

\* a text without separator, longer than two default chunking windows
LongText == [i \in 1 .. 1200 |-> "x"]

\* a Table whose text_as_html has the rows `rows` and whose text is the texts
\* of its cells
HtmlTableElement(rows) ==
    Element("Table", Join(<<SP>>, Flatten([i \in DOMAIN rows |->
                                            RowCellTexts(rows[i])])),
            None, Some(rows))

\* tables with text_as_html: one cell; an empty cell; two rows whose text fits
\* 50 characters and whose HTML does not; and BigTableRows
IsoTableRows ==
    {<< << <<"a">> >> >>,
     << << <<>> >> >>,
     << <<Cell29>>, << <<"a">> >> >>,
     BigTableRows}

IsoElements ==
    {Element(kind, text, None, None) :
        kind \in {"Text", "Title", "Table"}, text \in IsoStrings(IsoLen)}
    \cup {Element("PageBreak", <<>>, None, None),
          Element("Text", LongText, None, None)}
    \cup {HtmlTableElement(rows) : rows \in IsoTableRows}

IsoKwargs ==
    {[NoKwargs EXCEPT !.max_characters = m, !.overlap = o,
                      !.text_splitting_separators = seps] :
        m \in {None, Some(IsoMaxA), Some(IsoMaxB), Some(IsoMaxC),
               Some(MIN_HTML_SPLIT_MAX)},
        o \in {None, Some(1)},
        seps \in {None, Some(<< <<NL>> >>)}}

InitIso ==
    /\ kwargs \in IsoKwargs
    /\ \E e \in IsoElements, overlap_prefix \in {<<>>, <<"x">>} :
          /\ elements = <<e>>
          /\ slot2 = Some(PreChunk(<<e>>, overlap_prefix))
          /\ combined = <<[pre_chunk |-> PreChunk(<<e>>, overlap_prefix),
                           parts |-> 1]>>
    /\ pc = "iter_chunks"
    /\ boundary_predicates = <<>>
    /\ current_page_number = 1
    /\ is_first = TRUE
    /\ b_elements = <<>>
    /\ b_overlap_prefix = <<>>
    /\ b_text_segments = <<>>
    /\ b_text_len = 0
    /\ pre_at = "done"
    /\ pre_elem = None
    /\ slot1 = None
    /\ pre_chunks = <<>>
    /\ accum = None
    /\ accum_parts = 0
    /\ comb_at = "done"
    /\ comb_pending = None
    /\ c_table = None
    /\ c_prefix = <<>>
    /\ is_continuation = FALSE
    /\ c_text = <<>>
    /\ remainder = <<>>
    /\ chunks = <<>>
    /\ heap = <<>>
    /\ calls = <<>>
    /\ metadata = <<>>
    /\ chunk_metadata = <<>>
    /\ html_strategy = "unread"

NextIso ==
    \/ IterChunks
    \/ ChunkerFirst
    \/ ChunkerNext
    \/ TableIterChunks
    \/ TableTextNext

SpecIso == InitIso /\ [][NextIso]_vars

-----------------------------------------------------------------------------
(* _TableChunker on a Table with text_as_html, at a hard_max that lets the   *)
(* HTML splitter run: the tables of at most MaxRows rows, each row one of    *)
(* HtmlRows. `combined` keeps the pre-chunk of the table.                    *)

MaxRows == 3
HtmlExtra == 10

\* a cell text of 60 characters without whitespace
Cell60 == [i \in 1 .. 60 |-> "x"]

\* rows of one, two and three cells, with short, empty, long and oversized
\* cells
HtmlRows ==
    {<< <<"a">> >>,
     << <<>> >>,
     <<Cell29>>,
     <<Cell29, <<>>, Cell29>>,
     <<Cell54>>,
     << <<"a">>, <<"b">>, Cell60 >>,
     << Cell29, <<"b">> >>}

HtmlTables == UNION {[1 .. n -> HtmlRows] : n \in 1 .. MaxRows}

InitHtml ==
    /\ kwargs \in {[NoKwargs EXCEPT !.max_characters = Some(m)] :
                      m \in {MIN_HTML_SPLIT_MAX, MIN_HTML_SPLIT_MAX + HtmlExtra}}
    /\ \E rows \in HtmlTables :
          /\ elements = <<HtmlTableElement(rows)>>
          /\ c_table = Some(HtmlTableElement(rows))
          /\ combined = <<[pre_chunk |-> PreChunk(<<HtmlTableElement(rows)>>, <<>>),
                           parts |-> 1]>>
    /\ pc = "table"
    /\ c_prefix = <<>>
    /\ boundary_predicates = <<>>
    /\ current_page_number = 1
    /\ is_first = TRUE
    /\ b_elements = <<>>
    /\ b_overlap_prefix = <<>>
    /\ b_text_segments = <<>>
    /\ b_text_len = 0
    /\ pre_at = "done"
    /\ pre_elem = None
    /\ slot1 = None
    /\ pre_chunks = <<>>
    /\ accum = None
    /\ accum_parts = 0
    /\ comb_at = "done"
    /\ comb_pending = None
    /\ slot2 = None
    /\ is_continuation = FALSE
    /\ c_text = <<>>
    /\ remainder = <<>>
    /\ chunks = <<>>
    /\ heap = <<>>
    /\ calls = <<>>
    /\ metadata = <<>>
    /\ chunk_metadata = <<>>
    /\ html_strategy = "unread"

NextHtml == TableIterChunks

SpecHtml == InitHtml /\ [][NextHtml]_vars

-----------------------------------------------------------------------------
(* The metadata of the chunks of one pre-chunk, with the caller's elements   *)
(* and their metadata as objects: heap[r] is the object of identity r, an    *)
(* Element holding the identity of its metadata, or an ElementMetadata       *)
(* holding the identities of its orig_elements. `elements` keeps, for each   *)
(* element of the pre-chunk, its identity and what it and its metadata held  *)
(* when chunking began; calls logs each metadata made and its orig_elements. *)

MaxOrigElems == 2
MaxMetadataCalls == 2

ElementObject(kind, text, metadata_ref) ==
    [kind |-> kind, text |-> text, metadata |-> metadata_ref]

MetadataObject(orig_elements, text_as_html, continuation) ==
    [orig_elements |-> orig_elements, text_as_html |-> text_as_html,
     is_continuation |-> continuation]

\* copy.copy(e): a new Element object holding what e holds, the identity of
\* e's metadata included; the objects alive afterwards
ShallowCopy(objects, e) == Append(objects, objects[e])

\* copy.deepcopy(table): a new Element with a new ElementMetadata of its own;
\* the objects alive afterwards, the copy last
DeepCopy(objects, table) ==
    objects \o <<objects[objects[table].metadata],
                 [objects[table] EXCEPT !.metadata = Len(objects) + 1]>>

\* the elements themselves as the list, whatever orig_elements they carry
ChunkerOrigElementsAsIs(objects, refs) == [objects |-> objects, result |-> refs]

\* _Chunker._orig_elements for the elements of identities refs: the objects
\* alive afterwards and the identities in the list
RECURSIVE ChunkerOrigElements(_, _)
ChunkerOrigElements(objects, refs) ==
    IF refs = <<>> THEN [objects |-> objects, result |-> <<>>]
    ELSE LET e == Head(refs)
         IN  IF objects[objects[e].metadata].orig_elements = None
             THEN LET rest == ChunkerOrigElements(objects, Tail(refs))
                  IN  [objects |-> rest.objects, result |-> <<e>> \o rest.result]
             ELSE LET copied == ShallowCopy(objects, e)
                      orig_element == Len(copied)
                      cleared == [copied EXCEPT
                                     ![copied[orig_element].metadata].orig_elements
                                         = None]
                      rest == ChunkerOrigElements(cleared, Tail(refs))
                  IN  [objects |-> rest.objects,
                       result |-> <<orig_element>> \o rest.result]

\* _TableChunker._orig_elements
TableOrigElements(objects, table) ==
    LET copied == DeepCopy(objects, table)
        orig_table == Len(copied)
    IN  [objects |-> [copied EXCEPT ![copied[orig_table].metadata].orig_elements
                                        = None],
         result |-> <<orig_table>>]

\* the pre-chunk holds one element and it is a Table
IsTablePreChunk ==
    Len(elements) = 1 /\ elements[1].element.kind = "Table"

\* _Chunker._consolidated_metadata, made once for the pre-chunk
ConsolidatedMetadataCall ==
    /\ pc = "metadata"
    /\ ~IsTablePreChunk
    /\ calls = <<>>
    /\ LET o == IF IncludeOrigElements(kwargs)
                THEN ChunkerOrigElements(heap, [i \in DOMAIN elements |->
                                                   elements[i].ref])
                ELSE [objects |-> heap, result |-> <<>>]
       IN  /\ heap' = Append(o.objects,
                             MetadataObject(IF IncludeOrigElements(kwargs)
                                            THEN Some(o.result) ELSE None,
                                            None, None))
           /\ calls' = Append(calls, [metadata |-> Len(o.objects) + 1,
                                      orig_elements |-> o.result])
    /\ UNCHANGED <<optVars, pageVars, builderVars, preVars, combVars, tableVars,
                   chunkVars, metaVars, pc>>

\* _TableChunker._metadata, made for each chunk of the table: a deep copy of the
\* table's metadata, with the orig_elements made at the first call
TableMetadataCall ==
    /\ pc = "metadata"
    /\ IsTablePreChunk
    /\ Len(calls) < MaxMetadataCalls
    /\ LET table == elements[1].ref
           o == IF ~IncludeOrigElements(kwargs)
                THEN [objects |-> heap, result |-> <<>>]
                ELSE IF calls # <<>>
                THEN [objects |-> heap, result |-> calls[1].orig_elements]
                ELSE TableOrigElements(heap, table)
           copied == heap[heap[table].metadata]
       IN  /\ heap' = Append(o.objects,
                             [copied EXCEPT !.orig_elements =
                                 IF IncludeOrigElements(kwargs)
                                 THEN Some(o.result) ELSE @])
           /\ calls' = Append(calls, [metadata |-> Len(o.objects) + 1,
                                      orig_elements |-> o.result])
    /\ UNCHANGED <<optVars, pageVars, builderVars, preVars, combVars, tableVars,
                   chunkVars, metaVars, pc>>

\* what an element supplied by the caller may be: a text element or a Table,
\* fresh from partitioning or itself a chunk carrying orig_elements
SuppliedElements ==
    {[kind |-> kind, text |-> <<"a">>, orig_elements |-> o, text_as_html |-> h] :
        kind \in {"Text", "Table"}, o \in {None, Some(<<1>>)},
        h \in {None, Some(<< << <<"a">> >> >>)}}

\* the objects of the supplied elements es: first an element that some of them
\* name in their orig_elements and its metadata, then each element followed by
\* its metadata
SuppliedObjects(es) ==
    <<ElementObject("Text", <<"o">>, 2), MetadataObject(None, None, None)>>
        \o Flatten([i \in DOMAIN es |->
               <<ElementObject(es[i].kind, es[i].text, 2 * i + 2),
                 MetadataObject(es[i].orig_elements, es[i].text_as_html, None)>>])

InitOrig ==
    /\ kwargs \in {[NoKwargs EXCEPT !.include_orig_elements = a] :
                      a \in {None, Some(TRUE), Some(FALSE)}}
    /\ boundary_predicates = <<>>
    /\ pc = "metadata"
    /\ \E n \in 1 .. MaxOrigElems : \E es \in [1 .. n -> SuppliedElements] :
          /\ heap = SuppliedObjects(es)
          /\ elements = [i \in 1 .. n |->
                            [ref |-> 2 * i + 1,
                             element |-> SuppliedObjects(es)[2 * i + 1],
                             metadata |-> SuppliedObjects(es)[2 * i + 2]]]
    /\ current_page_number = 1
    /\ is_first = TRUE
    /\ b_elements = <<>>
    /\ b_overlap_prefix = <<>>
    /\ b_text_segments = <<>>
    /\ b_text_len = 0
    /\ pre_at = "done"
    /\ pre_elem = None
    /\ slot1 = None
    /\ pre_chunks = <<>>
    /\ accum = None
    /\ accum_parts = 0
    /\ comb_at = "done"
    /\ comb_pending = None
    /\ slot2 = None
    /\ combined = <<>>
    /\ c_table = None
    /\ c_prefix = <<>>
    /\ is_continuation = FALSE
    /\ c_text = <<>>
    /\ remainder = <<>>
    /\ chunks = <<>>
    /\ calls = <<>>
    /\ metadata = <<>>
    /\ chunk_metadata = <<>>
    /\ html_strategy = "unread"

NextOrig == ConsolidatedMetadataCall \/ TableMetadataCall

SpecOrig == InitOrig /\ [][NextOrig]_vars

-----------------------------------------------------------------------------
(* The pipeline with is_title as the only boundary predicate, on streams of  *)
(* up to MaxTitleElems titles and short texts, nothing being combined.       *)

ExampleMax == 100

TitleA == Element("Title", <<"A">>, None, None)
TitleB == Element("Title", <<"B">>, None, None)
TextX == Element("Text", [i \in 1 .. 10 |-> "x"], None, None)
TextY == Element("Text", [i \in 1 .. 10 |-> "y"], None, None)

TitleCatalogue == {TitleA, TextX, TitleB, TextY}

InitTitle ==
    /\ kwargs \in {[NoKwargs EXCEPT !.max_characters = Some(m)] :
                      m \in {SmallMax, ExampleMax}}
    /\ boundary_predicates = <<"is_title">>
    /\ pc = "new"
    /\ Unstarted
    /\ heap = <<>>
    /\ calls = <<>>
    /\ metadata = <<>>
    /\ chunk_metadata = <<>>
    /\ html_strategy = "unread"

NextTitle ==
    \/ New
    \/ \E e \in TitleCatalogue : PreChunkerNext(e)
    \/ PreChunkerResume
    \/ PreChunkerEnd
    \/ PreChunkerFinish
    \/ CombinerNext
    \/ CombinerResume
    \/ CombinerEnd
    \/ CombinerFinish
    \/ IterChunks
    \/ ChunkerFirst

SpecTitle == InitTitle /\ [][NextTitle]_vars

-----------------------------------------------------------------------------
(* Two predicates, each returned by its own call of is_on_next_page(): heap[i] *)
(* is the closure of predicate i, its current_page_number and is_first. Either *)
(* is called with elements of any page numbers in any interleaving; calls logs *)
(* each call: the predicate, the page number passed, the result.               *)

MaxReuseCalls == 4

\* a closure shared by every predicate, as module-level state would be
ClosureShared(closures, i) == closures[1]

\* the nonlocal current_page_number, is_first of the predicate called
Closure(closures, i) == closures[i]

\* is_on_next_page(): the closure of a predicate just made
NewClosure == [current_page_number |-> 1, is_first |-> TRUE]

\* predicate i called: page_number_incremented(element)
ClosureCall(i, page_number) ==
    /\ pc = "closures"
    /\ Len(calls) < MaxReuseCalls
    /\ LET c == Closure(heap, i)
           r == PageNumberIncremented(c.current_page_number, c.is_first, page_number)
       IN  /\ heap' = [heap EXCEPT ![i] = [current_page_number |-> r.current_page_number,
                                           is_first |-> r.is_first]]
           /\ calls' = Append(calls, [pred |-> i, page_number |-> page_number,
                                      result |-> r.result])
    /\ UNCHANGED <<optVars, pageVars, builderVars, preVars, combVars, tableVars,
                   chunkVars, metaVars, pc>>

InitReuse ==
    /\ kwargs = NoKwargs
    /\ boundary_predicates = <<"is_on_next_page">>
    /\ pc = "closures"
    /\ Unstarted
    /\ heap = <<NewClosure, NewClosure>>
    /\ calls = <<>>
    /\ metadata = <<>>
    /\ chunk_metadata = <<>>
    /\ html_strategy = "unread"

NextReuse == \E i \in 1 .. 2, page_number \in PageNumbers : ClosureCall(i, page_number)

SpecReuse == InitReuse /\ [][NextReuse]_vars

-----------------------------------------------------------------------------
(* The pipeline with is_title as the only boundary predicate and nothing     *)
(* being combined, on streams of up to MaxTitleElems elements with texts of  *)
(* no, few and many characters, at a small max_characters, with and without  *)
(* overlap between pre-chunks and at several new_after_n_chars, with        *)
(* combine_text_under_n_chars left out or 0.                                 *)

PackBreak == Element("PageBreak", <<>>, None, None)
PackShort == Element("Text", <<"b", "b", SP, "b", "b">>, None, None)
PackOver == Element("Text", [i \in 1 .. SmallMax + 1 |-> "z"], None, None)

PackCatalogue == {TitleA, PackBreak, PackShort, TextX, PackOver}

PackKwargs ==
    {[NoKwargs EXCEPT !.max_characters = Some(SmallMax), !.new_after_n_chars = n,
                      !.overlap = o[1], !.overlap_all = o[2],
                      !.combine_text_under_n_chars = c] :
        n \in {None, Some(0), Some(SoftArg)},
        o \in {<<None, None>>, <<Some(OverlapArg), None>>,
               <<Some(OverlapArg), Some(TRUE)>>},
        c \in {None, Some(0)}}

InitPack ==
    /\ kwargs \in PackKwargs
    /\ boundary_predicates = <<"is_title">>
    /\ pc = "new"
    /\ Unstarted
    /\ heap = <<>>
    /\ calls = <<>>
    /\ metadata = <<>>
    /\ chunk_metadata = <<>>
    /\ html_strategy = "unread"

NextPack ==
    \/ New
    \/ \E e \in PackCatalogue : PreChunkerNext(e)
    \/ PreChunkerResume
    \/ PreChunkerEnd
    \/ PreChunkerFinish
    \/ CombinerNext
    \/ CombinerResume
    \/ CombinerEnd
    \/ CombinerFinish
    \/ IterChunks
    \/ ChunkerFirst
    \/ ChunkerNext

SpecPack == InitPack /\ [][NextPack]_vars

-----------------------------------------------------------------------------
(* _Chunker._meta_kwargs for the elements of one pre-chunk: the metadata of   *)
(* an element gives each known field None or a value, and                     *)
(* ConsolidationStrategy.field_consolidation_strategies() names the strategy  *)
(* of each field, here one field per strategy. `elements` keeps the elements  *)
(* of the pre-chunk, `metadata` gets the consolidated values.                 *)

MaxMetaElems == 3

\* ConsolidationStrategy.field_consolidation_strategies()
FieldConsolidationStrategies ==
    [filename |-> "FIRST", link_texts |-> "LIST_CONCATENATE",
     languages |-> "LIST_UNIQUE", section |-> "STRING_CONCATENATE",
     parent_id |-> "DROP"]

\* ElementMetadata.known_fields of an element without metadata values
NoMetadata == [f \in DOMAIN FieldConsolidationStrategies |-> None]

\* _all_metadata_values[field_name]: the non-None values of the field, in
\* element order; a field is a key of the dict when this is not empty
AllMetadataValues(els, field_name) ==
    Flatten([i \in DOMAIN els |-> els[i].metadata[field_name]])

\* the items of the lists, each kept where it occurs last
RECURSIVE ListUniqueKeepLast(_)
ListUniqueKeepLast(items) ==
    IF items = <<>> THEN <<>>
    ELSE (IF \E i \in 2 .. Len(items) : items[i] = Head(items) THEN <<>>
          ELSE <<Head(items)>>) \o ListUniqueKeepLast(Tail(items))

\* list({key: None for val_list in values for key in val_list}.keys()), given
\* the items of the lists in order
RECURSIVE ListUnique(_)
ListUnique(items) ==
    IF items = <<>> THEN <<>>
    ELSE LET before == ListUnique(SubSeq(items, 1, Len(items) - 1))
             key == items[Len(items)]
         IN  IF \E i \in DOMAIN before : before[i] = key THEN before
             ELSE Append(before, key)

\* _meta_kwargs: the consolidated value of each field, None for a field that
\* is no key of the dict
MetaKwargs(els) ==
    [field_name \in DOMAIN FieldConsolidationStrategies |->
        LET values == AllMetadataValues(els, field_name)
            strategy == FieldConsolidationStrategies[field_name]
        IN  IF values = <<>> THEN None
            ELSE IF strategy = "FIRST" THEN Some(values[1])
            ELSE IF strategy = "LIST_CONCATENATE" THEN Some(Flatten(values))
            ELSE IF strategy = "LIST_UNIQUE" THEN Some(ListUnique(Flatten(values)))
            ELSE IF strategy = "STRING_CONCATENATE"
            THEN Some(Join(<<SP>>, [i \in DOMAIN values |-> Strip(values[i])]))
            ELSE None]

\* ElementMetadata(**self._meta_kwargs), evaluated once for the pre-chunk
MetaKwargsCall ==
    /\ pc = "meta_kwargs"
    /\ metadata = <<>>
    /\ metadata' = <<MetaKwargs(elements)>>
    /\ UNCHANGED <<optVars, pageVars, builderVars, preVars, combVars, tableVars,
                   chunkVars, heap, calls, chunk_metadata, html_strategy, pc>>

\* metadata of elements: none; every field set; other values, lists that
\* repeat items of the first; an empty list and a blank string; single fields
MetadataCatalogue ==
    {NoMetadata,
     [filename |-> Some("f"), link_texts |-> Some(<<1>>), languages |-> Some(<<1, 1>>),
      section |-> Some(<<SP, "a">>), parent_id |-> Some("p")],
     [filename |-> Some("g"), link_texts |-> Some(<<1, 2>>),
      languages |-> Some(<<2, 1>>), section |-> Some(<<"b", SP>>), parent_id |-> None],
     [NoMetadata EXCEPT !.link_texts = Some(<<>>), !.languages = Some(<<3, 2>>),
                        !.section = Some(<<SP>>), !.parent_id = Some("q")],
     [NoMetadata EXCEPT !.filename = Some("h")],
     [NoMetadata EXCEPT !.languages = Some(<<1, 2, 1>>)]}

InitMeta ==
    /\ kwargs = NoKwargs
    /\ boundary_predicates = <<>>
    /\ pc = "meta_kwargs"
    /\ \E n \in 1 .. MaxMetaElems : \E ms \in [1 .. n -> MetadataCatalogue] :
          elements = [i \in 1 .. n |->
                         [kind |-> "Text", text |-> <<"a">>, metadata |-> ms[i]]]
    /\ current_page_number = 1
    /\ is_first = TRUE
    /\ b_elements = <<>>
    /\ b_overlap_prefix = <<>>
    /\ b_text_segments = <<>>
    /\ b_text_len = 0
    /\ pre_at = "done"
    /\ pre_elem = None
    /\ slot1 = None
    /\ pre_chunks = <<>>
    /\ accum = None
    /\ accum_parts = 0
    /\ comb_at = "done"
    /\ comb_pending = None
    /\ slot2 = None
    /\ combined = <<>>
    /\ c_table = None
    /\ c_prefix = <<>>
    /\ is_continuation = FALSE
    /\ c_text = <<>>
    /\ remainder = <<>>
    /\ chunks = <<>>
    /\ heap = <<>>
    /\ calls = <<>>
    /\ metadata = <<>>
    /\ chunk_metadata = <<>>
    /\ html_strategy = "unread"

NextMeta == MetaKwargsCall

SpecMeta == InitMeta /\ [][NextMeta]_vars

-----------------------------------------------------------------------------
(* PreChunkBuilder with its lists as objects: heap[r] is the list object r,   *)
(* b_elements the reference the builder holds in _elements and the elements   *)
(* of a PreChunk the reference it holds, so that a list shared by the builder *)
(* and a pre-chunk changes for both. The methods are called in any order, as  *)
(* a caller holding the builder and the flush() generator may call them.      *)

MaxFlushElems == 3
MaxFlushCalls == 3

\* PreChunk.__init__ keeping the list it is given
PreChunkInitShared(h, ref, overlap_prefix) ==
    [heap |-> h, pre_chunk |-> [elements |-> ref, overlap_prefix |-> overlap_prefix]]

\* PreChunk.__init__: self._elements = list(elements), a new list object
PreChunkInit(h, ref, overlap_prefix) ==
    [heap |-> Append(h, h[ref]),
     pre_chunk |-> [elements |-> Len(h) + 1, overlap_prefix |-> overlap_prefix]]

\* the pre-chunk with the elements its list holds in heap h
Deref(h, p) == PreChunk(h[p.elements], p.overlap_prefix)

\* PreChunkBuilder.add_element on the builder's list object
BuilderAddElement(e) ==
    /\ pc = "builder"
    /\ Len(elements) < MaxFlushElems
    /\ elements' = Append(elements, e)
    /\ heap' = [heap EXCEPT ![b_elements] = Append(@, e)]
    /\ b_text_segments' =
           IF e.text # <<>> THEN Append(b_text_segments, e.text) ELSE b_text_segments
    /\ b_text_len' = IF e.text # <<>> THEN b_text_len + Len(e.text) ELSE b_text_len
    /\ UNCHANGED <<optVars, pageVars, b_elements, b_overlap_prefix, pre_at, pre_elem,
                   slot1, pre_chunks, combVars, tableVars, chunkVars, calls,
                   metaVars, pc>>

\* PreChunkBuilder.flush from its start to its yield or, the builder having no
\* elements, to its return: _reset_state sets the prefix, clears the list
\* object in place and makes new text segments
BuilderFlush ==
    /\ pc = "builder"
    /\ pre_at = "loop"
    /\ Len(calls) < MaxFlushCalls
    /\ calls' = Append(calls, [emitted |-> heap[b_elements] # <<>>])
    /\ IF heap[b_elements] = <<>>
       THEN UNCHANGED <<heap, builderVars, pre_at, slot1, pre_chunks>>
       ELSE LET made == PreChunkInit(heap, b_elements, b_overlap_prefix)
                overlap_prefix == OverlapTail(kwargs, Deref(made.heap, made.pre_chunk))
            IN  /\ b_overlap_prefix' = overlap_prefix
                /\ heap' = [made.heap EXCEPT ![b_elements] = <<>>]
                /\ b_text_segments' =
                       IF overlap_prefix # <<>> THEN <<overlap_prefix>> ELSE <<>>
                /\ b_text_len' = Len(overlap_prefix)
                /\ slot1' = Some(made.pre_chunk)
                /\ pre_chunks' = Append(pre_chunks, made.pre_chunk)
                /\ pre_at' = "yield_loop"
                /\ UNCHANGED b_elements
    /\ UNCHANGED <<optVars, pageVars, elements, pre_elem, combVars, tableVars,
                   chunkVars, metaVars, pc>>

\* the flush() generator resumed after its yield: it returns
BuilderFlushResume ==
    /\ pc = "builder"
    /\ pre_at = "yield_loop"
    /\ pre_at' = "loop"
    /\ slot1' = None
    /\ UNCHANGED <<optVars, pageVars, builderVars, elements, pre_elem, pre_chunks,
                   combVars, tableVars, chunkVars, heapVars, pc>>

FlushKwargs ==
    {NoKwargs,
     [NoKwargs EXCEPT !.overlap = Some(OverlapArg), !.overlap_all = Some(TRUE)]}

FlushCatalogue == {TitleA, PackBreak, PackShort}

InitFlush ==
    /\ kwargs \in FlushKwargs
    /\ boundary_predicates = <<>>
    /\ pc = "builder"
    /\ current_page_number = 1
    /\ is_first = TRUE
    /\ b_elements = 1
    /\ heap = << <<>> >>
    /\ b_overlap_prefix = <<>>
    /\ b_text_segments = <<>>
    /\ b_text_len = 0
    /\ elements = <<>>
    /\ pre_at = "loop"
    /\ pre_elem = None
    /\ slot1 = None
    /\ pre_chunks = <<>>
    /\ accum = None
    /\ accum_parts = 0
    /\ comb_at = "loop"
    /\ comb_pending = None
    /\ slot2 = None
    /\ combined = <<>>
    /\ c_table = None
    /\ c_prefix = <<>>
    /\ is_continuation = FALSE
    /\ c_text = <<>>
    /\ remainder = <<>>
    /\ chunks = <<>>
    /\ calls = <<>>
    /\ metadata = <<>>
    /\ chunk_metadata = <<>>
    /\ html_strategy = "unread"

NextFlush ==
    \/ \E e \in FlushCatalogue : BuilderAddElement(e)
    \/ BuilderFlush
    \/ BuilderFlushResume

SpecFlush == InitFlush /\ [][NextFlush]_vars

-----------------------------------------------------------------------------
(* The claims *)

\* the characters of s that are not whitespace, in order
NonWs(s) == SelectSeq(s, LAMBDA c : ~IsWs(c))

IsPrefix(t, s) == Len(t) <= Len(s) /\ SubSeq(s, 1, Len(t)) = t

IsSuffix(t, s) == Len(t) <= Len(s) /\ SubSeq(s, Len(s) - Len(t) + 1, Len(s)) = t

\* the fragments frags, each without a repeated start of at most ov characters
\* that ends the fragment before it (prev), spell target exactly
RECURSIVE Reconstructs(_, _, _, _)
Reconstructs(prev, frags, target, ov) ==
    IF frags = <<>> THEN target = <<>>
    ELSE LET f == NonWs(Head(frags).text)
         IN  \E n \in 0 .. Min(ov, Len(f)) :
                 /\ IsSuffix(Take(f, n), prev)
                 /\ IsPrefix(Drop(f, n), target)
                 /\ Reconstructs(f, Tail(frags), Drop(target, Len(f) - n), ov)

\* the first split of c_text breaks it at a separator, not at an arbitrary
\* character
FirstSplitAtSeparator ==
    /\ Len(c_text) > HardMax(kwargs)
    /\ \E i \in DOMAIN TextSplittingSeparators(kwargs) :
           SplitFromMaxlen(TextSplittingSeparators(kwargs)[i], c_text,
                           HardMax(kwargs), Overlap(kwargs))[1] # <<>>

\* C1: for accepted options and any element stream, every chunk the pipeline
\* emits (CompositeElement, Table or TableChunk, whole or split as text, as a
\* text-only table or as an HTML table, with or without overlap) has a text of
\* at most max_characters characters.
C1_HardCeiling == \A i \in DOMAIN chunks : Len(chunks[i].text) <= HardMax(kwargs)

C1_Witness ==
    /\ pc = "done"
    /\ InterChunkOverlap(kwargs) > 0
    /\ \E i \in DOMAIN chunks : chunks[i].kind = "CompositeElement"
    /\ \E i \in DOMAIN chunks :
           /\ chunks[i].kind = "Table"
           /\ Len(chunks[i].text) > Len(TableText(SampleTable))
    /\ \E i \in DOMAIN chunks :
           /\ chunks[i].kind = "TableChunk"
           /\ ~IsNone(chunks[i].text_as_html)
           /\ ~IsNone(chunks[i].is_continuation)

\* the condition C2 gives for new() to fail, on the arguments passed
C2_Rejected ==
    LET max_characters ==
            IF IsNone(kwargs.max_characters) THEN CHUNK_MAX_CHARS_DEFAULT
            ELSE Val(kwargs.max_characters)
        overlap == IF IsNone(kwargs.overlap) THEN 0 ELSE Val(kwargs.overlap)
    IN  \/ max_characters <= 0
        \/ ~IsNone(kwargs.new_after_n_chars) /\ Val(kwargs.new_after_n_chars) < 0
        \/ overlap >= max_characters

\* C2: new() raises exactly when max_characters <= 0, or new_after_n_chars is
\* given and < 0, or overlap >= max_characters (500 when not given); otherwise
\* it returns the options, and no later step of the pipeline raises.
C2_NewFailsIff == pc # "new" => ((pc = "error") <=> C2_Rejected)

C2_Witness ==
    /\ pc = "error"
    /\ kwargs.overlap = Some(HardMax(kwargs))
    /\ IsNone(kwargs.new_after_n_chars)

\* C3: every options object new() returns has hard_max > 0,
\* 0 <= soft_max <= hard_max with soft_max = min(new_after_n_chars, hard_max)
\* (hard_max when not given), 0 <= overlap < hard_max, and inter_chunk_overlap
\* = overlap when overlap_all is set, else 0.
C3_OptionsInvariants ==
    pc = "pre" =>
        /\ HardMax(kwargs) > 0
        /\ 0 <= SoftMax(kwargs) /\ SoftMax(kwargs) <= HardMax(kwargs)
        /\ SoftMax(kwargs) =
               IF IsNone(kwargs.new_after_n_chars) THEN HardMax(kwargs)
               ELSE Min(Val(kwargs.new_after_n_chars), HardMax(kwargs))
        /\ 0 <= Overlap(kwargs) /\ Overlap(kwargs) < HardMax(kwargs)
        /\ InterChunkOverlap(kwargs) =
               IF kwargs.overlap_all = Some(TRUE) THEN Overlap(kwargs) ELSE 0

\* C4: a split of a string longer than hard_max leaves a remainder strictly
\* shorter than the string, for every separator list, the hard cut and every
\* accepted overlap; so every pass of a split loop strictly shortens the
\* remainder, which is what makes the loop reach the empty remainder.
C4_SplitShortens ==
    [][/\ (pc = "chunker" /\ Len(c_text) > HardMax(kwargs))
              => Len(remainder') < Len(c_text)
       /\ pc \in {"chunker_loop", "table_text"} => Len(remainder') < Len(remainder)]_vars

C4_Witness ==
    /\ pc \in {"chunker_loop", "table_text"}
    /\ Len(chunks) = 1
    /\ Overlap(kwargs) > 1
    /\ FirstSplitAtSeparator
    /\ remainder # <<>>
    /\ Len(remainder) < Len(c_text)

\* C5: when the split loop has ended, the non-whitespace characters of the
\* fragments, in order, are those of the string that was split; with
\* overlap > 0 a later fragment may in addition start with at most `overlap`
\* characters repeated from the end of the fragment before it.
C5_NothingLost ==
    (pc = "comb" /\ Overlap(kwargs) >= 0)
        => Reconstructs(<<>>, chunks, NonWs(c_text), Overlap(kwargs))

C5_Witness ==
    /\ pc = "comb"
    /\ Len(chunks) >= 2
    /\ Overlap(kwargs) = 2
    /\ FirstSplitAtSeparator
    /\ NonWs(chunks[2].text)[1] = NonWs(chunks[1].text)[Len(NonWs(chunks[1].text))]

\* C6: no pre-chunk PreChunker emits holds a Table together with another
\* element, whatever the stream and the boundary predicates.
C6_TablesIsolated ==
    \A i \in DOMAIN pre_chunks :
        (\E j \in DOMAIN pre_chunks[i].elements :
             pre_chunks[i].elements[j].kind = "Table")
            => Len(pre_chunks[i].elements) = 1

\* C7: whenever the builder holds elements and its text length (segments plus
\* the separators between them) is at or above soft_max, equality included,
\* will_fit is False for every element.
C7_FullAtSoftMax ==
    (/\ pc = "pre"
     /\ pre_at = "loop"
     /\ b_elements # <<>>
     /\ TextLength(b_text_segments, b_text_len) >= SoftMax(kwargs))
        => \A e \in ElementCatalogue :
               ~WillFit(kwargs, b_elements, b_text_segments, b_text_len, e)

\* the page C8's state machine tracks after the calls of a non-empty log
RECURSIVE TrackedPage(_)
TrackedPage(log) ==
    LET page_number == log[Len(log)].page_number
    IN  IF ~IsNone(page_number) THEN Val(page_number)
        ELSE IF Len(log) = 1 THEN 1
        ELSE TrackedPage(SubSeq(log, 1, Len(log) - 1))

\* what C8's state machine returns for the last call of a non-empty log
ExpectedResult(log) ==
    LET page_number == log[Len(log)].page_number
    IN  IF Len(log) = 1 \/ IsNone(page_number) THEN FALSE
        ELSE Val(page_number) # TrackedPage(SubSeq(log, 1, Len(log) - 1))

ExamplePages == <<None, Some(1), Some(1), Some(2), Some(2), None, Some(3)>>

\* C8: over any sequence of page numbers the predicate returns False for the
\* first element and tracks its page number (1 when absent); afterwards None
\* returns False and keeps the tracked page, the tracked page returns False,
\* and any other page returns True and becomes the tracked page. For
\* [None, 1, 1, 2, 2, None, 3] it is True exactly at the first 2 and at 3.
C8_PageStateMachine ==
    /\ \A n \in DOMAIN calls : calls[n].result = ExpectedResult(SubSeq(calls, 1, n))
    /\ calls # <<>> => current_page_number = TrackedPage(calls)
    /\ [n \in DOMAIN calls |-> calls[n].page_number] = ExamplePages
           => [n \in DOMAIN calls |-> calls[n].result]
                  = <<FALSE, FALSE, FALSE, TRUE, FALSE, FALSE, TRUE>>

\* C9: can_combine is True exactly when this pre-chunk's text is shorter than
\* combine_text_under_n_chars and the text of the trial combination is at most
\* hard_max long; so every pre-chunk the combiner forms from two or more
\* pre-chunks has a text of at most hard_max characters.
C9_CanCombine ==
    /\ (pc = "comb" /\ comb_at = "loop" /\ ~IsNone(slot1) /\ ~IsNone(accum))
           => (CanCombine(kwargs, Val(accum), Val(slot1))
                   <=> /\ Len(Text(Val(accum))) < CombineTextUnderNChars(kwargs)
                       /\ Len(Text(PreChunk(Val(accum).elements \o Val(slot1).elements,
                                            Val(accum).overlap_prefix)))
                              <= HardMax(kwargs))
    /\ \A i \in DOMAIN combined :
           combined[i].parts >= 2
               => Len(Text(combined[i].pre_chunk)) <= HardMax(kwargs)

C9_Witness ==
    /\ \E i \in DOMAIN combined :
           /\ combined[i].parts >= 2
           /\ Len(Text(combined[i].pre_chunk)) < CombineTextUnderNChars(kwargs)
           /\ i < Len(combined)

\* C10: a.combine(b) returns a new pre-chunk with the elements of a followed
\* by those of b and the overlap prefix of a, leaves a and b as they were, and
\* (a.combine(b)).combine(c) equals a.combine(b.combine(c)).
C10_CombineAssociative ==
    /\ \A n \in DOMAIN calls :
           LET c == calls[n]
           IN  /\ c.result \notin {c.self, c.other}
               /\ heap[c.self] = c.self_before
               /\ heap[c.other] = c.other_before
               /\ heap[c.result].elements
                      = c.self_before.elements \o c.other_before.elements
               /\ heap[c.result].overlap_prefix = c.self_before.overlap_prefix
    /\ \A a \in DOMAIN heap : \A b \in DOMAIN heap : \A c \in DOMAIN heap :
           Combine(Combine(heap[a], heap[b]), heap[c])
               = Combine(heap[a], Combine(heap[b], heap[c]))

C10_Witness ==
    /\ Len(calls) = 2
    /\ calls[2].self = calls[1].result
    /\ calls[1].self_before.overlap_prefix # calls[1].other_before.overlap_prefix
    /\ calls[2].other \notin {calls[1].self, calls[1].other}

\* the elements of the pre-chunks ps, in order
ElementsOf(ps) == Flatten([i \in DOMAIN ps |-> ps[i].elements])

\* the elements the combiner has taken in and not yet yielded: those of its
\* accumulator (already yielded while it is suspended in flush) and those of
\* the pre-chunk it is about to add
CombinerHolds ==
    (IF IsNone(accum) \/ comb_at \in {"yield_loop", "yield_final"} THEN <<>>
     ELSE Val(accum).elements)
        \o (IF IsNone(comb_pending) THEN <<>> ELSE Val(comb_pending).elements)

\* C11: the combiner is one greedy left-to-right pass: holding a pre-chunk, it
\* yields it before the incoming one exactly when can_combine is false, and
\* then holds the incoming one alone, else holds the combination; what it has
\* yielded is never changed afterwards; and the elements of the pre-chunks it
\* yielded and holds, in order, are those of the pre-chunks it was given.
C11_GreedyPass ==
    [][/\ (pc = "comb" /\ comb_at = "loop" /\ ~IsNone(slot1) /\ ~IsNone(accum))
              => IF CanCombine(kwargs, Val(accum), Val(slot1))
                 THEN /\ combined' = combined
                      /\ Val(accum').elements
                             = Val(accum).elements \o Val(slot1).elements
                 ELSE /\ combined' = Append(combined, [pre_chunk |-> Val(accum),
                                                       parts |-> accum_parts])
                      /\ comb_pending' = slot1
       /\ (pc = "comb" /\ comb_at = "yield_loop") => accum' = comb_pending
       /\ Len(combined) <= Len(combined')
       /\ SubSeq(combined', 1, Len(combined)) = combined
       /\ ElementsOf([i \in DOMAIN combined' |-> combined'[i].pre_chunk])
              \o CombinerHolds'
              \o (IF IsNone(slot1') THEN <<>> ELSE Val(slot1').elements)
              = ElementsOf(pre_chunks')]_vars

C11_Witness ==
    /\ pc = "done"
    /\ Len(combined) = 2
    /\ combined[1].parts = 2
    /\ ElementsOf(<<combined[1].pre_chunk, combined[2].pre_chunk>>) = elements
    /\ Len(pre_chunks) = 3

\* the pre-chunk being chunked on its own has yielded all its chunks
IsoDone == pc = "comb" /\ comb_at = "done" /\ Len(combined) = 1

\* the one element of a pre-chunk chunked on its own without overlap prefix
\* has a text of at most hard_max characters
IsoFits ==
    /\ IsoDone
    /\ combined[1].pre_chunk.overlap_prefix = <<>>
    /\ Len(combined[1].pre_chunk.elements) = 1
    /\ Len(combined[1].pre_chunk.elements[1].text) <= HardMax(kwargs)

\* C12 as stated: a single element whose text is at most hard_max long,
\* chunked on its own, gives exactly one chunk, whose text is the element's
\* text with whitespace runs collapsed and ends trimmed, whatever its class
\* and even when its text is empty.
C12_OneNormalizedChunk ==
    IsoFits =>
        /\ Len(chunks) = 1
        /\ chunks[1].text = NormalizeWs(combined[1].pre_chunk.elements[1].text)

\* C12 amended: such an element gives no chunk when its text is empty or only
\* whitespace; else, when it is no Table, one CompositeElement with the
\* normalized text; and when it is a Table without text_as_html, one Table
\* whose text is the table's text with only its ends trimmed.
C12_OneChunkPerKind ==
    IsoFits =>
        LET e == combined[1].pre_chunk.elements[1]
        IN  IF NormalizeWs(e.text) = <<>> THEN chunks = <<>>
            ELSE IF e.kind # "Table"
            THEN chunks = <<Chunk("CompositeElement", NormalizeWs(e.text),
                                  None, None)>>
            ELSE IsNone(e.html) =>
                     chunks = <<Chunk("Table", Strip(e.text), None, None)>>

C12_Witness ==
    /\ IsoFits
    /\ combined[1].pre_chunk.elements[1].kind = "Table"
    /\ combined[1].pre_chunk.elements[1].text = <<"a", SP, NL, "a">>
    /\ Len(chunks) = 1
    /\ chunks[1].text = <<"a", SP, NL, "a">>

\* the string sep occurs in the string s
Contains(sep, s) ==
    \E i \in 1 .. Len(s) - Len(sep) + 1 : SubSeq(s, i, i + Len(sep) - 1) = sep

\* the number of windows of h characters needed for L characters
CeilDiv(L, h) == (L + h - 1) \div h

\* a pre-chunk of one element that is no Table, chunked on its own with
\* overlap 0, whose normalized text is longer than hard_max
IsoOversizedText ==
    /\ IsoDone
    /\ combined[1].pre_chunk.overlap_prefix = <<>>
    /\ Len(combined[1].pre_chunk.elements) = 1
    /\ combined[1].pre_chunk.elements[1].kind # "Table"
    /\ Overlap(kwargs) = 0
    /\ Len(NormalizeWs(combined[1].pre_chunk.elements[1].text)) > HardMax(kwargs)

\* the chunks are the consecutive windows of hard_max characters of the
\* normalized text, CompositeElements, the first without is_continuation and
\* the later ones with it; the 1200 characters at hard_max 500 give chunks of
\* 500, 500 and 200 characters
ExactWindows ==
    LET text == NormalizeWs(combined[1].pre_chunk.elements[1].text)
        h == HardMax(kwargs)
    IN  /\ Len(chunks) = CeilDiv(Len(text), h)
        /\ \A i \in DOMAIN chunks :
              chunks[i] = Chunk("CompositeElement",
                                SubSeq(text, (i - 1) * h + 1, Min(i * h, Len(text))),
                                IF i = 1 THEN None ELSE Some(TRUE), None)
        /\ (text = LongText /\ h = CHUNK_MAX_CHARS_DEFAULT) =>
              /\ [i \in DOMAIN chunks |-> Len(chunks[i].text)] = <<500, 500, 200>>
              /\ [i \in DOMAIN chunks |-> chunks[i].is_continuation]
                     = <<None, Some(TRUE), Some(TRUE)>>

\* C13 as stated: a single text element whose normalized text is longer than
\* hard_max and contains none of the separators, chunked with overlap 0, gives
\* ceil(L / hard_max) CompositeElements, each of hard_max characters except
\* possibly the last, the first without is_continuation and the others with it.
C13_SeparatorFreeWindows ==
    (/\ IsoOversizedText
     /\ \A i \in DOMAIN TextSplittingSeparators(kwargs) :
           ~Contains(TextSplittingSeparators(kwargs)[i],
                     NormalizeWs(combined[1].pre_chunk.elements[1].text)))
        => ExactWindows

\* C13 amended: the same for a normalized text that contains no whitespace.
C13_WhitespaceFreeWindows ==
    (/\ IsoOversizedText
     /\ NonWs(NormalizeWs(combined[1].pre_chunk.elements[1].text))
            = NormalizeWs(combined[1].pre_chunk.elements[1].text))
        => ExactWindows

C13_Witness ==
    /\ IsoOversizedText
    /\ combined[1].pre_chunk.elements[1].text = LongText
    /\ HardMax(kwargs) = CHUNK_MAX_CHARS_DEFAULT
    /\ Len(chunks) = 3
    /\ Len(chunks[3].text) = 200

\* C14: among the chunks formed from one pre-chunk, by the text split, the
\* text-only table split or the HTML table split, the metadata of the first
\* chunk has no is_continuation and that of every later chunk has it true, a
\* single chunk included; and the metadata object of every chunk still holds
\* what it held when the chunk was emitted.
C14_ContinuationMarks ==
    \A i \in DOMAIN chunks :
        /\ metadata[chunk_metadata[i]].is_continuation
               = (IF i = 1 THEN None ELSE Some(TRUE))
        /\ metadata[chunk_metadata[i]]
               = ElementMetadata(chunks[i].is_continuation, chunks[i].text_as_html)

C14_Witness ==
    /\ IsoDone
    /\ Len(chunks) = 3
    /\ chunks[1].kind = "CompositeElement"
    /\ chunk_metadata[1] # chunk_metadata[2]
    /\ chunk_metadata[2] = chunk_metadata[3]
    /\ metadata[chunk_metadata[1]].is_continuation = None
    /\ metadata[chunk_metadata[3]].is_continuation = Some(TRUE)

\* C15: a Table chunked on its own gives no chunk when its text is empty or
\* only whitespace; one Table, whose text_as_html is the table's compacted HTML,
\* when it has text and both its text with the overlap prefix and its HTML are
\* at most hard_max long; and TableChunks only in every other case.
C15_TableChunkerCases ==
    (IsoDone /\ combined[1].pre_chunk.elements[1].kind = "Table") =>
        LET table == combined[1].pre_chunk.elements[1]
            overlap_prefix == combined[1].pre_chunk.overlap_prefix
            text_len == Len(Strip(table.text))
                            + (IF overlap_prefix = <<>> THEN 0
                               ELSE Len(overlap_prefix) + 1)
            html_len == IF IsNone(table.html) THEN 0 ELSE HtmlLen(Val(table.html))
        IN  IF NonWs(table.text) = <<>> THEN chunks = <<>>
            ELSE IF text_len <= HardMax(kwargs) /\ html_len <= HardMax(kwargs)
            THEN /\ Len(chunks) = 1
                 /\ chunks[1].kind = "Table"
                 /\ metadata[chunk_metadata[1]].text_as_html = table.html
            ELSE \A i \in DOMAIN chunks : chunks[i].kind = "TableChunk"

C15_Witness ==
    /\ IsoDone
    /\ combined[1].pre_chunk.elements[1].kind = "Table"
    /\ combined[1].pre_chunk.elements[1].html = Some(<< << <<"a">> >> >>)
    /\ combined[1].pre_chunk.overlap_prefix = <<"x">>
    /\ chunks = <<Chunk("Table", <<"x", NL, "a">>, None, Some(<< << <<"a">> >> >>))>>

\* C16: a table that is split, and that has no text_as_html or is split at a
\* hard_max below 50, gives TableChunks of which none carries text_as_html;
\* TableChunks with the HTML of a sub-table come only from a table with
\* text_as_html split at a hard_max of at least 50.
C16_FallbackWithoutHtml ==
    \A i \in DOMAIN chunks :
        chunks[i].kind = "TableChunk" =>
            LET table == combined[1].pre_chunk.elements[1]
            IN  IF IsNone(table.html) \/ HardMax(kwargs) < MIN_HTML_SPLIT_MAX
                THEN metadata[chunk_metadata[i]].text_as_html = None
                ELSE metadata[chunk_metadata[i]].text_as_html # None

\* the texts of the chunks, one after the other
ChunkTexts == Flatten([i \in DOMAIN chunks |-> chunks[i].text])

\* the texts of the cells of the rows, in document order, one after the other
CellTexts(rows) == Flatten(Flatten(rows))

\* C17: the fragments of the HTML splitter, in emission order, hold the text
\* of every cell of every row once and in document order, whitespace at the
\* cuts aside, whatever the level (rows, cells, text) each part was split at;
\* and the HTML of each fragment is one table holding the cells of its text.
C17_NoCellLost ==
    (/\ pc = "comb"
     /\ chunks # <<>>
     /\ \A i \in DOMAIN chunks : chunks[i].kind = "TableChunk")
        => /\ NonWs(ChunkTexts) = NonWs(CellTexts(Val(Val(c_table).html)))
           /\ \A i \in DOMAIN chunks :
                 /\ chunks[i].text_as_html # None
                 /\ NonWs(chunks[i].text)
                        = NonWs(CellTexts(Val(chunks[i].text_as_html)))

C17_Witness ==
    /\ pc = "comb"
    /\ Val(c_table).html = Some(BigTableRows)
    /\ HardMax(kwargs) = MIN_HTML_SPLIT_MAX
    /\ Len(chunks) >= 6
    /\ chunks[1].text_as_html = Some(<< <<Cell29>> >>)
    /\ chunks[2].text_as_html = Some(<< <<Cell29, <<>> >> >>)
    /\ chunks[3].text_as_html = Some(<< <<Cell29>> >>)
    /\ Len(chunks[4].text) <= MIN_HTML_SPLIT_MAX - CELL_HTML_OVERHEAD

\* C18: the elements supplied by the caller and their metadata hold, at every
\* moment of the chunking, what they held before it, orig_elements,
\* text_as_html and is_continuation included.
C18_InputsUntouched ==
    pc = "metadata" =>
        \A i \in DOMAIN elements :
            /\ heap[elements[i].ref] = elements[i].element
            /\ heap[elements[i].element.metadata] = elements[i].metadata

\* C19: with is_title as boundary predicate no pre-chunk PreChunker yields has
\* a Title after its first element; and the stream Title A, Text of ten x,
\* Title B, Text of ten y, at max_characters 100 with nothing combined, gives
\* the pre-chunks [A, x...] and [B, y...] and two CompositeElements, each the
\* title and the text joined by a blank line.
C19_TitleStartsPreChunk ==
    /\ \A i \in DOMAIN pre_chunks :
           \A j \in 2 .. Len(pre_chunks[i].elements) :
               pre_chunks[i].elements[j].kind # "Title"
    /\ (/\ pc = "done"
        /\ elements = <<TitleA, TextX, TitleB, TextY>>
        /\ HardMax(kwargs) = ExampleMax)
           => /\ pre_chunks = <<PreChunk(<<TitleA, TextX>>, <<>>),
                                PreChunk(<<TitleB, TextY>>, <<>>)>>
              /\ combined = <<[pre_chunk |-> pre_chunks[1], parts |-> 1],
                              [pre_chunk |-> pre_chunks[2], parts |-> 1]>>
              /\ chunks = <<Chunk("CompositeElement",
                                  <<"A", NL, NL>> \o TextX.text, None, None),
                            Chunk("CompositeElement",
                                  <<"B", NL, NL>> \o TextY.text, None, None)>>

C19_Witness ==
    /\ pc = "done"
    /\ elements = <<TitleA, TextX, TitleB, TextY>>
    /\ HardMax(kwargs) = ExampleMax
    /\ Len(pre_chunks) = 2
    /\ Len(chunks) = 2

\* the closure of a page predicate that was called with each of els in turn
RECURSIVE PageStateAfter(_)
PageStateAfter(els) ==
    IF els = <<>> THEN [current_page_number |-> 1, is_first |-> TRUE]
    ELSE LET before == PageStateAfter(SubSeq(els, 1, Len(els) - 1))
         IN  PageNumberIncremented(before.current_page_number, before.is_first,
                                   els[Len(els)].page_number)

\* the positions in the stream at which a pre-chunk yielded so far begins, and
\* the position at which the next one will
PreChunkStarts ==
    {1 + Len(ElementsOf(SubSeq(pre_chunks, 1, i))) : i \in 0 .. Len(pre_chunks)}

\* C20: the log of predicate calls holds, for each element taken from the
\* stream in order, one call of each configured predicate in order; the page
\* predicate answers each element as one that was called with every element
\* before it; and an element for which a call returned true begins a pre-chunk.
C20_EveryPredicateCalled ==
    LET np == Len(boundary_predicates)
    IN  /\ Len(calls) = np * Len(elements)
        /\ \A n \in DOMAIN elements : \A j \in 1 .. np :
              LET c == calls[(n - 1) * np + j]
              IN  /\ c.pred = boundary_predicates[j]
                  /\ c.element = n
                  /\ c.result =
                         IF c.pred = "is_title" THEN elements[n].kind = "Title"
                         ELSE LET before == PageStateAfter(SubSeq(elements, 1, n - 1))
                              IN  PageNumberIncremented(before.current_page_number,
                                                        before.is_first,
                                                        elements[n].page_number).result
                  /\ c.result => n \in PreChunkStarts

C20_Witness ==
    /\ pc = "done"
    /\ Len(elements) = 3
    /\ Len(calls) = 6
    /\ calls[3].result /\ calls[4].result
    /\ ~calls[5].result /\ calls[6].result

\* the calls made of predicate i so far, in order
CallsOf(i) == SelectSeq(calls, LAMBDA c : c.pred = i)

\* C21: nothing resets a page predicate: once called its closure has is_first
\* false for good, it holds what calling a new predicate with every element it
\* has ever been passed leaves, and each answer is the answer to the element
\* after all of those before it, whichever stream they came from; two
\* predicates that have been passed the same page numbers from the start have
\* given the same answers.
C21_PredicateStateKept ==
    /\ \A i \in 1 .. 2 :
          LET mine == CallsOf(i)
              after == PageStateAfter(mine)
          IN  /\ mine # <<>> => ~heap[i].is_first
              /\ heap[i].current_page_number = after.current_page_number
              /\ heap[i].is_first = after.is_first
              /\ \A n \in DOMAIN mine :
                    LET before == PageStateAfter(SubSeq(mine, 1, n - 1))
                    IN  mine[n].result =
                            PageNumberIncremented(before.current_page_number,
                                                  before.is_first,
                                                  mine[n].page_number).result
    /\ \A n \in 1 .. Min(Len(CallsOf(1)), Len(CallsOf(2))) :
          (\A k \in 1 .. n : CallsOf(1)[k].page_number = CallsOf(2)[k].page_number)
              => CallsOf(1)[n].result = CallsOf(2)[n].result

\* predicate 1 has taken a one-element stream and then reports a boundary at the
\* first element of a second stream, where predicate 2, new, reports none
C21_Witness ==
    /\ Len(calls) = 3
    /\ calls[1].pred = 1
    /\ calls[2].pred = 1 /\ calls[2].result
    /\ calls[3].pred = 2 /\ ~calls[3].result
    /\ calls[3].page_number = calls[2].page_number

\* the number of pre-chunks of PreChunker that went into the combined
\* pre-chunks of log
RECURSIVE PartsIn(_)
PartsIn(log) ==
    IF log = <<>> THEN 0
    ELSE log[Len(log)].parts + PartsIn(SubSeq(log, 1, Len(log) - 1))

\* the pre-chunks of PreChunker that went into the i-th combined pre-chunk
PartsOf(i) ==
    LET before == PartsIn(SubSeq(combined, 1, i - 1))
    IN  SubSeq(pre_chunks, before + 1, before + combined[i].parts)

\* C22: no pre-chunk emitted by PreChunkCombiner that was combined from two or
\* more pre-chunks of PreChunker took in a pre-chunk that is a single Table.
C22_SingleTableNeverMerged ==
    \A i \in DOMAIN combined :
        combined[i].parts > 1 =>
            \A n \in DOMAIN PartsOf(i) :
                ~(Len(PartsOf(i)[n].elements) = 1
                    /\ PartsOf(i)[n].elements[1].kind = "Table")

\* C23: with new_after_n_chars = 0 every pre-chunk yielded by PreChunker holds
\* exactly one element.
C23_OneElementAtSoftMaxZero ==
    kwargs.new_after_n_chars = Some(0) =>
        \A i \in DOMAIN pre_chunks : Len(pre_chunks[i].elements) = 1

\* C24: a pre-chunk yielded by PreChunker whose text, overlap prefix included,
\* is longer than hard_max holds exactly one element and the text of that
\* element alone is longer than hard_max.
C24_OversizedOnlyAlone ==
    \A i \in DOMAIN pre_chunks :
        Len(Text(pre_chunks[i])) > HardMax(kwargs) =>
            /\ Len(pre_chunks[i].elements) = 1
            /\ Len(pre_chunks[i].elements[1].text) > HardMax(kwargs)

\* C25: in each pass of the PreChunker loop for an element e, the builder
\* holding elements, the current pre-chunk is yielded exactly when a boundary
\* predicate returned true for e or e does not fit, where e fits exactly when
\* the builder's text length is not above soft_max and len(e.text) is at most
\* hard_max less the accumulated text length and one separator per accumulated
\* text segment, the overlap prefix being one of them; an empty builder yields
\* nothing; e is added to the pre-chunk kept, or alone after the overlap prefix
\* once the yield is resumed.
C25_GreedyPacking ==
    [][/\ (pc = "pre" /\ pre_at = "loop" /\ Len(elements') = Len(elements) + 1) =>
            LET e == elements'[Len(elements')]
                closes == Len(pre_chunks') = Len(pre_chunks) + 1
                boundary == \E j \in (Len(calls) + 1) .. Len(calls') : calls'[j].result
                room == HardMax(kwargs) - b_text_len
                            - Len(TextSeparator) * Len(b_text_segments)
                fits == /\ TextLength(b_text_segments, b_text_len) <= SoftMax(kwargs)
                        /\ Len(e.text) <= room
            IN  /\ (pre_chunks' = pre_chunks) \/ closes
                /\ b_elements # <<>> => (closes <=> (boundary \/ ~fits))
                /\ b_elements = <<>> => ~closes
                /\ closes => /\ pre_chunks'[Len(pre_chunks')] =
                                    PreChunk(b_elements, b_overlap_prefix)
                             /\ b_elements' = <<>>
                             /\ pre_elem' = Some(e)
                /\ ~closes => /\ b_elements' = Append(b_elements, e)
                              /\ b_overlap_prefix' = b_overlap_prefix
       /\ (pc = "pre" /\ pre_at = "yield_loop" /\ pre_at' = "loop") =>
            /\ b_elements' = <<Val(pre_elem)>>
            /\ b_text_segments' =
                   (IF b_overlap_prefix # <<>> THEN <<b_overlap_prefix>> ELSE <<>>)
                       \o (IF Val(pre_elem).text # <<>> THEN <<Val(pre_elem).text>>
                           ELSE <<>>)
      ]_vars

\* after 'bb bb' and 'bb bb', packed together, the ten x do not fit and begin a
\* pre-chunk after the overlap prefix, and the title begins another
C25_Witness ==
    /\ pc = "done"
    /\ kwargs.overlap_all = Some(TRUE)
    /\ IsNone(kwargs.new_after_n_chars)
    /\ elements = <<PackShort, PackShort, TextX, TitleA>>
    /\ Len(pre_chunks) = 3
    /\ pre_chunks[1].elements = <<PackShort, PackShort>>
    /\ pre_chunks[2] = PreChunk(<<TextX>>, <<"b", "b">>)

Accumulated(ps, n) == PreChunk(ElementsOf(SubSeq(ps, 1, n)), ps[1].overlap_prefix)

\* C27: whenever PreChunkCombiner added a pre-chunk to what it held, the text
\* of what it held was shorter than soft_max.
C27_ThresholdCappedAtSoftMax ==
    \A i \in DOMAIN combined :
        \A n \in 1 .. combined[i].parts - 1 :
            Len(Text(Accumulated(PartsOf(i), n))) < SoftMax(kwargs)

\* the 0-based index of the right-most occurrence of sep in s that starts after
\* index overlap and at or before index maxlen, or -1
SeparatorAt(sep, s, maxlen, overlap) ==
    LET at == {i \in (overlap + 1) .. maxlen :
                  /\ i + Len(sep) <= Len(s)
                  /\ SubSeq(s, i + 1, i + Len(sep)) = sep}
    IN  IF at = {} THEN 0 - 1 ELSE CHOOSE i \in at : \A j \in at : j <= i

\* the cut of s at that occurrence: the text before it, right-trimmed, and the
\* left-trimmed text after it, preceded when overlap > 1 by the last
\* overlap - 1 characters of the fragment, left-trimmed, and one space
SeparatorCut(sep, s, maxlen, overlap) ==
    LET at == SeparatorAt(sep, s, maxlen, overlap)
        fragment == RStrip(Take(s, at))
        after == LStrip(Drop(s, at + Len(sep)))
    IN  <<fragment,
          IF overlap > 1 THEN LStrip(LastN(fragment, overlap - 1)) \o <<SP>> \o after
          ELSE after>>

\* the separators of seps, by position, whose cut of s has a fragment and a
\* remainder shorter than s
Qualifying(seps, s, maxlen, overlap) ==
    {j \in DOMAIN seps :
        /\ SeparatorAt(seps[j], s, maxlen, overlap) >= 0
        /\ SeparatorCut(seps[j], s, maxlen, overlap)[1] # <<>>
        /\ Len(SeparatorCut(seps[j], s, maxlen, overlap)[2]) < Len(s)}

\* what a split of s gives: s whole, the cut at the first qualifying separator,
\* or the cut at maxlen
ExpectedSplit(seps, s, maxlen, overlap) ==
    LET q == Qualifying(seps, s, maxlen, overlap)
    IN  IF Len(s) <= maxlen THEN <<s, <<>> >>
        ELSE IF q = {}
        THEN <<RStrip(Take(s, maxlen)), LStrip(Drop(s, maxlen - overlap))>>
        ELSE SeparatorCut(seps[CHOOSE j \in q : \A i \in q : j <= i], s, maxlen, overlap)

\* a pass of a split loop is about to split this string
SplitInput == IF pc = "chunker" THEN c_text ELSE remainder

\* C28: the fragment every pass of a split loop emits is the whole string when
\* it is at most hard_max long; else the text before the right-most occurrence,
\* starting after index overlap and at or before index hard_max, of the first
\* configured separator whose cut there has a fragment and a remainder shorter
\* than the string; else, no separator qualifying, the first hard_max
\* characters; right-trimmed in both cases. A whole string leaves no remainder.
C28_FirstQualifyingSeparator ==
    [][(pc \in {"chunker", "chunker_loop", "table_text"}
           /\ Len(chunks') = Len(chunks) + 1) =>
          LET expected == ExpectedSplit(TextSplittingSeparators(kwargs), SplitInput,
                                        HardMax(kwargs), Overlap(kwargs))
          IN  /\ chunks'[Len(chunks')].text = expected[1]
              /\ Len(SplitInput) <= HardMax(kwargs) => remainder' = <<>>]_vars

\* the first split was made at the first separator although the second one
\* qualifies too, lies exactly at hard_max and would have given a longer
\* fragment
C28_Witness ==
    /\ pc = "chunker_loop"
    /\ Len(chunks) = 1
    /\ LET seps == TextSplittingSeparators(kwargs)
           q == Qualifying(seps, c_text, HardMax(kwargs), Overlap(kwargs))
       IN  /\ q = {1, 2}
           /\ chunks[1].text = SeparatorCut(seps[1], c_text, HardMax(kwargs),
                                            Overlap(kwargs))[1]
           /\ SeparatorAt(seps[2], c_text, HardMax(kwargs), Overlap(kwargs))
                  = HardMax(kwargs)
           /\ Len(SeparatorCut(seps[2], c_text, HardMax(kwargs), Overlap(kwargs))[1])
                  > Len(chunks[1].text)

\* C29: the remainder every pass of a split loop leaves is, on a separator
\* cut, the left-trimmed text after the separator, preceded when overlap > 1
\* by the last overlap - 1 characters of the fragment, left-trimmed, and one
\* space, and by nothing when overlap <= 1; on a cut at hard_max it is
\* s[hard_max - overlap:] left-trimmed, the fragment being s[:hard_max]
\* right-trimmed. With an overlap that is not negative the remainder is at most
\* overlap characters longer than the text left after the cut.
C29_RemainderOverlap ==
    [][(pc \in {"chunker", "chunker_loop", "table_text"}
           /\ Len(chunks') = Len(chunks) + 1
           /\ Len(SplitInput) > HardMax(kwargs)) =>
          LET seps == TextSplittingSeparators(kwargs)
              s == SplitInput
              maxlen == HardMax(kwargs)
              overlap == Overlap(kwargs)
              q == Qualifying(seps, s, maxlen, overlap)
              sep == seps[CHOOSE j \in q : \A i \in q : j <= i]
              at == SeparatorAt(sep, s, maxlen, overlap)
              fragment == chunks'[Len(chunks')].text
          IN  IF q # {}
              THEN LET after == LStrip(Drop(s, at + Len(sep)))
                   IN  /\ remainder' =
                              IF overlap > 1
                              THEN LStrip(LastN(fragment, overlap - 1)) \o <<SP>> \o after
                              ELSE after
                       /\ overlap >= 0 => Len(remainder') - Len(after) <= overlap
              ELSE /\ fragment = RStrip(Take(s, maxlen))
                   /\ remainder' = LStrip(Drop(s, maxlen - overlap))
                   /\ overlap >= 0 =>
                          Len(remainder') - Len(Drop(s, maxlen)) <= overlap]_vars

\* with overlap 2 a string was cut at a space: the remainder begins with the
\* last character of the fragment and a space
C29_Witness ==
    /\ pc \in {"chunker_loop", "table_text"}
    /\ Len(chunks) = 1
    /\ Overlap(kwargs) = 2
    /\ Qualifying(TextSplittingSeparators(kwargs), c_text, HardMax(kwargs), 2) # {}
    /\ Len(remainder) >= 3
    /\ remainder[1] = chunks[1].text[Len(chunks[1].text)]
    /\ remainder[2] = SP

\* items (rows by their text length, or cell texts) of these lengths, n of
\* them, fit one fragment with a space between neighbours
FitTogether(lens, n, maxlen) == SumLen(SubSeq(lens, 1, n)) + (n - 1) <= maxlen

\* the fragment of the first n items was closed for a reason: no item is left,
\* or the next one and the space before it fit no more
ClosedWhenFull(lens, n, maxlen) ==
    n = Len(lens) \/ ~FitTogether(lens, n + 1, maxlen)

\* the fragments frags are what is left to emit for the rows still to come,
\* after the cells still to come of an oversized row when in_row: a row that
\* fits an empty accumulator is in a fragment of whole consecutive rows that fit
\* together, closed when full; only a row that does not is cut into fragments
\* of whole consecutive cells, closed when full; and only a cell that does not
\* fit an empty cell accumulator is cut into fragments of one cell with a part
\* of its text
RECURSIVE LevelByLevel(_, _, _, _, _)
LevelByLevel(rows, cells, in_row, frags, maxlen) ==
    IF in_row /\ cells # <<>>
    THEN IF Len(Head(cells)) <= maxlen
         THEN /\ frags # <<>>
              /\ Len(Head(frags)) = 1
              /\ LET n == Len(Head(frags)[1])
                     lens == [i \in DOMAIN cells |-> cells[i]]
                 IN  /\ n >= 1 /\ n <= Len(cells)
                     /\ Head(frags)[1] = SubSeq(cells, 1, n)
                     /\ FitTogether(lens, n, maxlen)
                     /\ ClosedWhenFull(lens, n, maxlen)
                     /\ LevelByLevel(rows, SubSeq(cells, n + 1, Len(cells)), TRUE,
                                     Tail(frags), maxlen)
         ELSE LET n == Len(IterCellSplits(kwargs, Head(cells)))
              IN  /\ n >= 2 /\ n <= Len(frags)
                  /\ \A i \in 1 .. n :
                        /\ Len(frags[i]) = 1 /\ Len(frags[i][1]) = 1
                        /\ Len(frags[i][1][1]) <= maxlen - CELL_HTML_OVERHEAD
                  /\ NonWs(Flatten([i \in 1 .. n |-> frags[i][1][1]]))
                         = NonWs(Head(cells))
                  /\ LevelByLevel(rows, Tail(cells), TRUE,
                                  SubSeq(frags, n + 1, Len(frags)), maxlen)
    ELSE IF rows = <<>> THEN frags = <<>>
    ELSE IF RowTextLen(Head(rows)) <= maxlen
    THEN /\ frags # <<>>
         /\ LET n == Len(Head(frags))
                lens == [i \in DOMAIN rows |-> Join(<<SP>>, RowCellTexts(rows[i]))]
            IN  /\ n >= 1 /\ n <= Len(rows)
                /\ Head(frags) = SubSeq(rows, 1, n)
                /\ FitTogether(lens, n, maxlen)
                /\ ClosedWhenFull(lens, n, maxlen)
                /\ LevelByLevel(SubSeq(rows, n + 1, Len(rows)), <<>>, FALSE,
                                Tail(frags), maxlen)
    ELSE LevelByLevel(Tail(rows), Head(rows), TRUE, frags, maxlen)

\* C30: the fragments of the HTML splitter fall back level by level only when
\* needed: rows that fit an empty row accumulator come whole, in fragments of
\* consecutive rows closed only when the next row and its space would pass
\* hard_max or the rows end; cells are accumulated only for a row that does not
\* fit, and text is split only for a cell that does not fit an empty cell
\* accumulator.
C30_LevelByLevel ==
    (/\ pc = "comb"
     /\ chunks # <<>>
     /\ \A i \in DOMAIN chunks : chunks[i].kind = "TableChunk")
        => LevelByLevel(Val(Val(c_table).html), <<>>, FALSE,
                        [i \in DOMAIN chunks |-> Val(chunks[i].text_as_html)],
                        HardMax(kwargs))

\* two rows in one fragment, then a row cut into its first two cells and four
\* parts of its third
C30_Witness ==
    /\ pc = "comb"
    /\ HardMax(kwargs) = MIN_HTML_SPLIT_MAX
    /\ Val(c_table).html =
           Some(<< << <<"a">> >>, <<Cell29>>, << <<"a">>, <<"b">>, Cell60 >> >>)
    /\ Len(chunks) = 6
    /\ chunks[1].text_as_html = Some(<< << <<"a">> >>, <<Cell29>> >>)
    /\ chunks[2].text_as_html = Some(<< << <<"a">>, <<"b">> >> >>)

\* the chunks after the first `start`, n of them, are the text of cell split:
\* each is a table of one row of one cell holding the text of the chunk, and
\* together they spell the cell, whitespace at the cuts aside
CellSplitAt(cell, start, n) ==
    /\ start + n <= Len(chunks)
    /\ \A j \in (start + 1) .. (start + n) :
          chunks[j].text_as_html = Some(<< <<chunks[j].text>> >>)
    /\ NonWs(Flatten([j \in 1 .. n |-> chunks[start + j].text])) = NonWs(cell)

\* C31: every cell that does not fit an empty cell accumulator comes out as two
\* or more consecutive fragments, each its own table of one row and one cell
\* with a text of at most hard_max - 33 characters, so that the text and the 33
\* characters of the tags around it are at most hard_max.
C31_CellFragmentsFit ==
    (/\ pc = "comb"
     /\ chunks # <<>>
     /\ \A i \in DOMAIN chunks : chunks[i].kind = "TableChunk")
        => \A r \in DOMAIN Val(Val(c_table).html) :
             \A c \in DOMAIN Val(Val(c_table).html)[r] :
                LET cell == Val(Val(c_table).html)[r][c]
                IN  Len(cell) > HardMax(kwargs) =>
                        \E start \in 0 .. Len(chunks), n \in 2 .. Len(chunks) :
                            /\ CellSplitAt(cell, start, n)
                            /\ \A j \in (start + 1) .. (start + n) :
                                  /\ Len(chunks[j].text)
                                         <= HardMax(kwargs) - CELL_HTML_OVERHEAD
                                  /\ Len(chunks[j].text) + CELL_HTML_OVERHEAD
                                         <= HardMax(kwargs)

\* a table of one cell of 54 characters at hard_max 50, cut at its spaces into
\* four fragments of up to 17 characters
C31_Witness ==
    /\ pc = "comb"
    /\ HardMax(kwargs) = MIN_HTML_SPLIT_MAX
    /\ Val(c_table).html = Some(<< <<Cell54>> >>)
    /\ Len(chunks) = 4
    /\ CellSplitAt(Cell54, 0, 4)
    /\ Len(chunks[1].text) = 14

\* C32: with include_orig_elements on, the orig_elements of every metadata
\* made for a chunk lists one element per element of the pre-chunk, in order,
\* each of the class and text of its source element and with no orig_elements
\* of its own, whether or not the source elements carried orig_elements.
C32_OrigElementsOneLevel ==
    (pc = "metadata" /\ IncludeOrigElements(kwargs)) =>
        \A n \in DOMAIN calls :
            LET listed == heap[calls[n].metadata].orig_elements
            IN  /\ listed # None
                /\ Len(Val(listed)) = Len(elements)
                /\ \A i \in DOMAIN elements :
                      LET orig_element == heap[Val(listed)[i]]
                      IN  /\ orig_element.kind = elements[i].element.kind
                          /\ orig_element.text = elements[i].element.text
                          /\ heap[orig_element.metadata].orig_elements = None

\* the metadata of a chunk of two text elements, the second of them a chunk
\* with orig_elements of its own
C32_Witness ==
    /\ pc = "metadata"
    /\ IncludeOrigElements(kwargs)
    /\ Len(elements) = 2
    /\ elements[1].element.kind = "Text"
    /\ elements[1].metadata.orig_elements = None
    /\ elements[2].metadata.orig_elements # None
    /\ Len(calls) = 1
    /\ Len(calls[1].orig_elements) = 2

\* the position of the first occurrence of item in items
FirstAt(items, item) ==
    CHOOSE i \in DOMAIN items :
        items[i] = item /\ \A j \in 1 .. (i - 1) : items[j] # item

\* unique is items with every repeated item removed after its first occurrence
DedupedInOrder(unique, items) ==
    /\ {unique[i] : i \in DOMAIN unique} = {items[i] : i \in DOMAIN items}
    /\ \A i, j \in DOMAIN unique :
          i < j => FirstAt(items, unique[i]) < FirstAt(items, unique[j])

\* the elements of the pre-chunk in which the field is populated, in order
PopulatedIn(field_name) ==
    SelectSeq(elements, LAMBDA e : e.metadata[field_name] # None)

C34_PrefixIsPreviousTail ==
    \A i \in DOMAIN pre_chunks :
        pre_chunks[i].overlap_prefix =
            IF kwargs.overlap_all = Some(TRUE) /\ Overlap(kwargs) > 0 /\ i > 1
            THEN Strip(LastN(Text(pre_chunks[i - 1]), Overlap(kwargs)))
            ELSE <<>>

\* 'bb bb', then a title, then a text: the title gets the prefix 'bb', and the
\* text the 'A' left of the newline and 'A' that end 'bb', blank line, 'A'
C34_Witness ==
    /\ pc = "done"
    /\ kwargs.overlap_all = Some(TRUE)
    /\ Len(pre_chunks) = 3
    /\ pre_chunks[1].overlap_prefix = <<>>
    /\ pre_chunks[2] = PreChunk(<<TitleA>>, <<"b", "b">>)
    /\ pre_chunks[3].overlap_prefix = <<"A">>

\* C35: a flush of a builder that holds elements yields a pre-chunk with a
\* list of its own holding those elements, and at the yield the builder's list
\* is empty, its text segments are the overlap tail alone, or none when the
\* tail is empty, and its text length is the length of the tail; a flush of a
\* builder without elements yields nothing; and no step, add_element
\* included, changes the elements of a pre-chunk already yielded.
C35_CopyOnFlush ==
    [][/\ \A i \in DOMAIN pre_chunks :
              /\ pre_chunks'[i] = pre_chunks[i]
              /\ heap'[pre_chunks[i].elements] = heap[pre_chunks[i].elements]
       /\ calls' # calls =>
              IF heap[b_elements] = <<>>
              THEN pre_chunks' = pre_chunks /\ slot1' = slot1
              ELSE LET tail == OverlapTail(kwargs, PreChunk(heap[b_elements],
                                                            b_overlap_prefix))
                   IN  /\ ~IsNone(slot1')
                       /\ pre_chunks' = Append(pre_chunks, Val(slot1'))
                       /\ Val(slot1').elements # b_elements'
                       /\ heap'[Val(slot1').elements] = heap[b_elements]
                       /\ heap'[b_elements'] = <<>>
                       /\ b_text_segments' = (IF tail # <<>> THEN <<tail>> ELSE <<>>)
                       /\ b_text_len' = Len(tail)]_vars

\* 'bb bb' was flushed, a title was added while flush() was still at its
\* yield, and the flush of the builder before it held anything yielded nothing
C35_Witness ==
    /\ pc = "builder"
    /\ calls = <<[emitted |-> FALSE], [emitted |-> TRUE]>>
    /\ pre_at = "yield_loop"
    /\ Len(pre_chunks) = 1
    /\ heap[pre_chunks[1].elements] = <<PackShort>>
    /\ heap[b_elements] = <<TitleA>>
    /\ b_text_segments = <<<<"b", "b">>, <<"A">>>>

C37_ResetBeforeAdd ==
    [][/\ comb_at \in {"yield_loop", "yield_final"}
              => accum = Some(combined[Len(combined)].pre_chunk)
       /\ (pc = "comb" /\ comb_at = "yield_loop")
              => /\ accum' = comb_pending
                 /\ accum_parts' = 1
                 /\ combined' = combined
       /\ (pc = "comb" /\ comb_at = "yield_final")
              => accum' = None /\ combined' = combined
       /\ LET yielded == ElementsOf([i \in DOMAIN combined' |->
                                        combined'[i].pre_chunk])
          IN  /\ Len(yielded) <= Len(elements')
              /\ yielded = SubSeq(elements', 1, Len(yielded))]_vars

\* a combination of two pre-chunks was yielded and, flush() resumed, the
\* accumulator holds the third pre-chunk alone
C37_Witness ==
    /\ comb_at = "loop"
    /\ Len(pre_chunks) = 3
    /\ Len(combined) = 1
    /\ combined[1].parts = 2
    /\ combined[1].pre_chunk.elements = pre_chunks[1].elements \o pre_chunks[2].elements
    /\ accum = Some(pre_chunks[3])
    /\ accum_parts = 1

\* the cells of the rows of a table's text_as_html
CellsOf(rows) == UNION {{rows[r][c] : c \in DOMAIN rows[r]} : r \in DOMAIN rows}

\* C38: _TableChunker yields the pairs of the HTML splitter only when hard_max
\* is at least 50, so that the window of the cell splitter, hard_max - 33, is
\* at least 17; and then every cell whose text is longer than hard_max comes
\* out as a finite run of single-cell fragments, each with a text of at least
\* one and at most hard_max - 33 characters, that together hold the cell's
\* text.
C38_CellSplitWindow ==
    [][(/\ pc = "table"
        /\ pc' = "comb"
        /\ chunks' # chunks
        /\ chunks'[Len(chunks')].kind = "TableChunk")
       => /\ HardMax(kwargs) >= MIN_HTML_SPLIT_MAX
          /\ HardMax(kwargs) - CELL_HTML_OVERHEAD >= 17
          /\ \A cell \in CellsOf(Val(Val(c_table).html)) :
                 Len(cell) > HardMax(kwargs) =>
                     \E i \in DOMAIN chunks', n \in 1 .. Len(cell) :
                         /\ i + n - 1 <= Len(chunks')
                         /\ \A j \in i .. i + n - 1 :
                                /\ chunks'[j].text # <<>>
                                /\ Len(chunks'[j].text)
                                       <= HardMax(kwargs) - CELL_HTML_OVERHEAD
                                /\ chunks'[j].text_as_html
                                       = Some(<< <<chunks'[j].text>> >>)
                         /\ NonWs(Flatten([j \in 1 .. n |-> chunks'[i + j - 1].text]))
                                = NonWs(cell)]_vars

\* the table with a cell of 54 characters split at hard_max 50: its last four
\* chunks are the fragments of that cell, of at most 17 characters each
C38_Witness ==
    /\ HardMax(kwargs) = MIN_HTML_SPLIT_MAX
    /\ c_table = Some(HtmlTableElement(BigTableRows))
    /\ Len(chunks) >= 4
    /\ \A j \in Len(chunks) - 3 .. Len(chunks) :
           /\ chunks[j].kind = "TableChunk"
           /\ chunks[j].text # <<>>
           /\ Len(chunks[j].text) <= 17
           /\ chunks[j].text_as_html = Some(<< <<chunks[j].text>> >>)
    /\ NonWs(Flatten([j \in 1 .. 4 |-> chunks[Len(chunks) - 4 + j].text]))
           = NonWs(Cell54)

\* C39: every chunk emitted, CompositeElement, Table or TableChunk, has a text
\* of at least one character.
C39_NoEmptyChunkText ==
    \A i \in DOMAIN chunks : chunks[i].text # <<>>

\* the chunking of a single-Table pre-chunk that was handed an overlap prefix
\* no longer than the overlap has ended
TableWithPrefixDone ==
    /\ pc = "comb"
    /\ ~IsNone(c_table)
    /\ c_prefix # <<>>
    /\ Len(c_prefix) <= Overlap(kwargs)

\* the table was emitted whole, or split as text only
WholeOrTextOnly ==
    \/ Len(chunks) = 1 /\ chunks[1].kind = "Table"
    \/ IsNone(Val(c_table).html)
    \/ HardMax(kwargs) < MIN_HTML_SPLIT_MAX

\* C40 as stated: the text of the first chunk of a table emitted whole or split
\* as text only starts with the overlap prefix and a newline; no chunk of a
\* table split by the HTML splitter holds the prefix; a table without text
\* yields no chunk.
C40_PrefixThenNewline ==
    TableWithPrefixDone =>
        IF TableText(Val(c_table)) = <<>> THEN chunks = <<>>
        ELSE IF WholeOrTextOnly
        THEN chunks # <<>> /\ IsPrefix(c_prefix \o <<NL>>, chunks[1].text)
        ELSE /\ chunks = TableChunksOf(IterSubtables(kwargs, Val(Val(c_table).html)))
             /\ \A i \in DOMAIN chunks :
                    \A j \in DOMAIN chunks[i].text : chunks[i].text[j] # c_prefix[1]

\* C40 amended: the text of a table emitted whole is the overlap prefix, a
\* newline and the table's stripped text, and that same text is what the
\* text-only fallback starts to split; the first text-only chunk starts with
\* the prefix, and with the prefix and the newline unless it is the prefix
\* alone, the split having cut at the newline; no chunk of a table split by
\* the HTML splitter holds the prefix; a table without text yields no chunk.
C40_PrefixStartsSplitText ==
    /\ (pc = "table_text" /\ chunks = <<>> /\ c_prefix # <<>>)
           => remainder = c_prefix \o <<NL>> \o Strip(Val(c_table).text)
    /\ TableWithPrefixDone =>
           IF TableText(Val(c_table)) = <<>> THEN chunks = <<>>
           ELSE IF Len(chunks) = 1 /\ chunks[1].kind = "Table"
           THEN chunks[1].text = c_prefix \o <<NL>> \o Strip(Val(c_table).text)
           ELSE IF WholeOrTextOnly
           THEN /\ chunks # <<>>
                /\ \/ chunks[1].text = c_prefix
                   \/ IsPrefix(c_prefix \o <<NL>>, chunks[1].text)
           ELSE /\ chunks = TableChunksOf(IterSubtables(kwargs, Val(Val(c_table).html)))
                /\ \A i \in DOMAIN chunks :
                       \A j \in DOMAIN chunks[i].text :
                           chunks[i].text[j] # c_prefix[1]

\* a table of 54 and more characters with text_as_html split as text at
\* hard_max 40: the first chunk starts with the prefix 'x' and a newline
C40_Witness ==
    /\ TableWithPrefixDone
    /\ HardMax(kwargs) = IsoMaxC
    /\ ~IsNone(Val(c_table).html)
    /\ Len(chunks) > 1
    /\ chunks[1].kind = "TableChunk"
    /\ IsPrefix(<<"x", NL, "a", "b">>, chunks[1].text)

====
